---- MODULE Spec2Model ----
\* Verification model of sbdb (src/src/sbdb/sets.py): DesignVariableSet
\* (Cartesian expansion of design variables, replace_variable), ObjectSet
\* (generate_object_set, reduce_design_space, make_name_dict) and
\* VerifiedObjectLibrary (check_error, error_report, error_calc), and of
\* src/src/sbdb/database/population.py: drop_all_collections_USE_WITH_CAUTION,
\* drop_new_collections, populate_db.
\*
\* Python lists are modelled as TLA+ sequences: the element at Python index i
\* is element i + 1 of the sequence.  Indices stored in the state
\* (skipped_indices, DataFrame row labels, record ids) are the zero-based
\* Python indices.
EXTENDS Integers, Sequences, FiniteSets, TLC

\* ------------------------------------------------------------------ bounds
\* Largest number of candidate values of one design variable.
MaxCand == 2
\* Largest number of design variables when an ObjectSet is generated (Spec).
MaxSetVars == 2

\* The design variables of test_design_variable_set, in declaration order; a
\* space with n variables declares the first n of them.
VarNames == <<"length", "width", "material">>
\* A name no space declares.
UnknownName == "thickness"
\* Candidate values (scalars).
Values == {1, 2}

\* ----------------------------------------------------------------- state
VARIABLES
  design_var_sets,  \* DesignVariableSet.design_var_sets: ordered mapping, a
                    \* sequence of [name, vals] in declaration order
  param_list,       \* DesignVariableSet.param_list
  os_state,         \* "absent": no ObjectSet yet; "live": constructed;
                    \* "failed": __post_init__ raised, the caller holds no object
  reference_class,  \* ObjectSet.reference_class, the factory
  os_param_list,    \* ObjectSet.param_list
  shared,           \* ObjectSet.param_list and DesignVariableSet.param_list are
                    \* the same list object
  report_attrs,     \* ObjectSet.report_attrs
  value_fn,         \* ObjectSet.value_fn: None or a list
  object_set,       \* ObjectSet.object_set
  object_library,   \* ObjectSet.object_library, a DataFrame
  skipped_indices,  \* ObjectSet.skipped_indices
  returned,         \* what the last call returned, if it was a direct call of
                    \* generate_object_set
  op,               \* the last call: its name and arguments
  raised,           \* the exception the last call raised, "none" if it returned
  name_dict,        \* what the last call returned, if it was make_name_dict
  vl_state,         \* "absent": no VerifiedObjectLibrary yet; "live";
                    \* "failed": __post_init__ raised
  vl_object_library,    \* VerifiedObjectLibrary.object_library
  verification_library, \* VerifiedObjectLibrary.verification_library
  lookup_index,         \* VerifiedObjectLibrary.lookup_index
  result_df,            \* VerifiedObjectLibrary.result_df
  report_df,            \* VerifiedObjectLibrary.report_df
  generated_value,  \* error_calc: the arguments of the call
  verify_value,
  error,            \* error_calc: what the call returned
  removed,          \* history: the parameter records (as key-value pairs) that
                    \* reduce_design_space deleted from ObjectSet.param_list
  merge_list,       \* merge_parameter_lists: the argument, a list of
                    \* DesignVariableSets
  merged,           \* merge_parameter_lists: what the call returned
  collections,      \* the database: the names of its collections
  documents,        \* the database: per collection name, the files whose
                    \* records were inserted, in insertion order
  population_list,  \* the (collection name, file name) pairs
  files,            \* json_path: per file name, what opening and loading it does
  call,             \* the database function that is waiting at input(), with
                    \* its local variables
  user_input        \* the last line typed at input()

space_vars == <<design_var_sets, param_list>>
set_vars == <<os_state, reference_class, os_param_list, report_attrs, value_fn,
              object_set, object_library, skipped_indices, returned>>
verify_vars == <<vl_state, vl_object_library, verification_library, lookup_index,
                 result_df, report_df>>
calc_vars == <<generated_value, verify_value, error>>
\* The state that belongs to neither DesignVariableSet nor ObjectSet.
merge_vars == <<merge_list, merged>>
db_vars == <<collections, documents, population_list, files, call, user_input>>
beyond_sets == <<verify_vars, calc_vars, merge_vars, db_vars>>
vars == <<space_vars, shared, set_vars, op, raised, name_dict, removed, beyond_sets>>

\* ------------------------------------------------------- sequence helpers
Front(s) == SubSeq(s, 1, Len(s) - 1)
Last(s) == s[Len(s)]

\* All sequences over S of length at most n.
SeqsUpTo(S, n) == UNION {[1..k -> S] : k \in 0..n}

\* ------------------------------------------------------ DesignVariableSet
\* Mutant of ProductInner: the last item of the pool is left out.
ProductInnerDropsLast(x, pool) ==
  [j \in 1..(Len(pool) - 1) |-> Append(x, pool[j])]

\* [x + [y] for y in pool], the inner loop of itertools.product.
ProductInner(x, pool) == [j \in 1..Len(pool) |-> Append(x, pool[j])]

\* Mutant of ProductStep: the loops are nested the other way round,
\* [x + [y] for y in pool for x in result].
RECURSIVE ProductStepPoolOuter(_, _)
ProductStepPoolOuter(result, pool) ==
  IF pool = <<>> THEN <<>>
  ELSE [j \in 1..Len(result) |-> Append(result[j], Head(pool))]
       \o ProductStepPoolOuter(result, Tail(pool))

\* [x + [y] for x in result for y in pool], one pool of itertools.product.
RECURSIVE ProductStep(_, _)
ProductStep(result, pool) ==
  IF result = <<>> THEN <<>>
  ELSE ProductInner(Head(result), pool) \o ProductStep(Tail(result), pool)

\* Mutant of product: the product of no pool is empty.
RECURSIVE productStartsEmpty(_)
productStartsEmpty(pools) ==
  IF pools = <<>> THEN <<>>
  ELSE ProductStep(productStartsEmpty(SubSeq(pools, 1, Len(pools) - 1)),
                   pools[Len(pools)])

\* itertools.product(*pools): result = [[]]; for pool in pools: result = ...
RECURSIVE product(_)
product(pools) ==
  IF pools = <<>> THEN << <<>> >>
  ELSE ProductStep(product(Front(pools)), Last(pools))

\* list(data.keys()) and data.values() of the ordered mapping.
keys(data) == [j \in 1..Len(data) |-> data[j].name]
values(data) == [j \in 1..Len(data) |-> data[j].vals]

\* zip stops at the shorter argument.
Min(a, b) == IF a < b THEN a ELSE b

\* dict(zip(keys, list(d))): the parameter record, a sequence of <<key, value>>
\* in key order.
RecordOf(ks, d) == [j \in 1..Min(Len(ks), Len(d)) |-> <<ks[j], d[j]>>]

\* read_design_variable_set: one dict per tuple of the cross product, in the
\* product's order.  Each dict is a new object; id is its identity within the
\* list (its zero-based position at creation).
read_design_variable_set(data) ==
  LET design_var_cross_product == product(values(data))
  IN  [j \in 1..Len(design_var_cross_product) |->
         [id |-> j - 1, kv |-> RecordOf(keys(data), design_var_cross_product[j])]]

\* The transforms passed to replace_variable.  "swap" and "one" are total;
\* "next" raises on the largest value.
Ops == {"swap", "one", "next"}
OpRaises(f, v) == f = "next" /\ v = 2
ApplyOp(f, v) ==
  CASE f = "swap" -> 3 - v
    [] f = "one" -> 1
    [] f = "next" -> v + 1

HasKey(data, var_name) == \E j \in 1..Len(data) : data[j].name = var_name
KeyIndex(data, var_name) == CHOOSE j \in 1..Len(data) : data[j].name = var_name

\* self.design_var_sets[var_name] = [op(v) for v in self.design_var_sets[var_name]]
\* for a declared var_name and a transform that raises on no candidate:
\* assigning to an existing key keeps the key's position.
SetItem(data, var_name, f) ==
  LET k == KeyIndex(data, var_name)
  IN  [data EXCEPT ![k].vals = [j \in 1..Len(@) |-> ApplyOp(f, @[j])]]

\* The last call was no direct call of generate_object_set, or it raised.
NoReturn == [obj_set |-> <<>>, df |-> [columns |-> <<>>, rows |-> <<>>]]

\* The last call was no call of make_name_dict, or it raised.
NoDict == <<>>

\* Mutant of replace_variable: solve_me is not called after the assignment.
replace_variable_without_solve_me(var_name, f) ==
  /\ op' = [name |-> "replace_variable", var |-> var_name, f |-> f, val |-> 0]
  /\ returned' = NoReturn
  /\ name_dict' = NoDict
  /\ UNCHANGED <<removed, beyond_sets>>
  /\ UNCHANGED <<os_state, reference_class, os_param_list, report_attrs, value_fn,
                 object_set, object_library, skipped_indices, param_list, shared>>
  /\ IF ~HasKey(design_var_sets, var_name)
     THEN raised' = "KeyError" /\ UNCHANGED design_var_sets
     ELSE LET old == design_var_sets[KeyIndex(design_var_sets, var_name)].vals
          IN  IF \E j \in 1..Len(old) : OpRaises(f, old[j])
              THEN raised' = "OpError" /\ UNCHANGED design_var_sets
              ELSE /\ raised' = "none"
                   /\ design_var_sets' = SetItem(design_var_sets, var_name, f)

\* Mutant of replace_variable: the candidates are read with
\* design_var_sets.get(var_name, []), so an undeclared name is declared with no
\* candidates.
replace_variable_with_get(var_name, f) ==
  /\ op' = [name |-> "replace_variable", var |-> var_name, f |-> f, val |-> 0]
  /\ returned' = NoReturn
  /\ name_dict' = NoDict
  /\ UNCHANGED <<removed, beyond_sets>>
  /\ UNCHANGED <<os_state, reference_class, os_param_list, report_attrs, value_fn,
                 object_set, object_library, skipped_indices>>
  /\ IF ~HasKey(design_var_sets, var_name)
     THEN /\ raised' = "none"
          /\ design_var_sets' =
               Append(design_var_sets, [name |-> var_name, vals |-> <<>>])
          /\ param_list' = read_design_variable_set(design_var_sets')
          /\ shared' = FALSE
     ELSE LET old == design_var_sets[KeyIndex(design_var_sets, var_name)].vals
          IN  IF \E j \in 1..Len(old) : OpRaises(f, old[j])
              THEN /\ raised' = "OpError"
                   /\ UNCHANGED <<design_var_sets, param_list, shared>>
              ELSE /\ raised' = "none"
                   /\ design_var_sets' = SetItem(design_var_sets, var_name, f)
                   /\ param_list' = read_design_variable_set(design_var_sets')
                   /\ shared' = FALSE

\* DesignVariableSet.replace_variable(var_name, op).  The subscript read
\* raises KeyError for an undeclared name and the list comprehension raises
\* whatever op raises, both before the assignment.
\* solve_me binds param_list to a new list, so an ObjectSet built from the old
\* list no longer shares it.
replace_variable(var_name, f) ==
  /\ op' = [name |-> "replace_variable", var |-> var_name, f |-> f, val |-> 0]
  /\ returned' = NoReturn
  /\ name_dict' = NoDict
  /\ UNCHANGED <<removed, beyond_sets>>
  /\ UNCHANGED <<os_state, reference_class, os_param_list, report_attrs, value_fn,
                 object_set, object_library, skipped_indices>>
  /\ IF ~HasKey(design_var_sets, var_name)
     THEN /\ raised' = "KeyError"
          /\ UNCHANGED <<design_var_sets, param_list, shared>>
     ELSE LET old == design_var_sets[KeyIndex(design_var_sets, var_name)].vals
          IN  IF \E j \in 1..Len(old) : OpRaises(f, old[j])
              THEN /\ raised' = "OpError"
                   /\ UNCHANGED <<design_var_sets, param_list, shared>>
              ELSE /\ raised' = "none"
                   /\ design_var_sets' = SetItem(design_var_sets, var_name, f)
                   /\ param_list' = read_design_variable_set(design_var_sets')
                   /\ shared' = FALSE

\* The design_var_sets mappings with m to n variables, each with candidates
\* from Cands.
Spaces(m, n, Cands) ==
  UNION {{[j \in 1..k |-> [name |-> VarNames[j], vals |-> c[j]]] :
            c \in [1..k -> Cands]} : k \in m..n}

\* Candidate sequences: any, and the strictly increasing ones.
AnyCands == SeqsUpTo(Values, MaxCand)
IncreasingCands ==
  {c \in AnyCands : \A i, j \in 1..Len(c) : i < j => c[i] < c[j]}

NoCall == [name |-> "init", var |-> "", f |-> "", val |-> 0]

\* No ObjectSet has been constructed.
NoObjectSet ==
  /\ os_state = "absent"
  /\ reference_class = [raise_on |-> 0, miss_on |-> 0]
  /\ os_param_list = <<>>
  /\ shared = FALSE
  /\ report_attrs = <<>>
  /\ value_fn = [is_none |-> TRUE, list |-> <<>>]
  /\ object_set = <<>>
  /\ object_library = [columns |-> <<>>, rows |-> <<>>]
  /\ skipped_indices = <<>>
  /\ returned = NoReturn
  /\ name_dict = NoDict
  /\ removed = {}

\* No VerifiedObjectLibrary has been constructed and error_calc has not been
\* called.
NoVerification ==
  /\ vl_state = "absent"
  /\ vl_object_library = [columns |-> <<>>, rows |-> <<>>]
  /\ verification_library = [columns |-> <<>>, rows |-> <<>>]
  /\ lookup_index = ""
  /\ result_df = [columns |-> <<>>, rows |-> <<>>]
  /\ report_df = <<>>
NoCalc ==
  /\ generated_value = [t |-> "nan", n |-> 0, d |-> 1, s |-> ""]
  /\ verify_value = [t |-> "nan", n |-> 0, d |-> 1, s |-> ""]
  /\ error = [t |-> "nan", n |-> 0, d |-> 1, s |-> ""]

\* merge_parameter_lists has not been called.
NoMerge ==
  /\ merge_list = <<>>
  /\ merged = <<>>

\* The collection names and the file names that occur.
CollNames == {"beams", "bolts", "plates"}
FileNames == {"f1", "f2"}

\* No database function is running.
NoDbCall == [fn |-> "none", col_list |-> {}, new_colls |-> <<>>, stage |-> 0]

\* No database is used.
NoDb ==
  /\ collections = {}
  /\ documents = [c \in CollNames |-> <<>>]
  /\ population_list = <<>>
  /\ files = [f \in FileNames |-> "missing"]
  /\ call = NoDbCall
  /\ user_input = ""

\* DesignVariableSet(design_var_sets=data): __post_init__ calls solve_me.
Constructed(m, n, Cands) ==
  /\ design_var_sets \in Spaces(m, n, Cands)
  /\ param_list = read_design_variable_set(design_var_sets)
  /\ op = NoCall
  /\ raised = "none"
  /\ NoObjectSet
  /\ NoVerification
  /\ NoCalc
  /\ NoMerge
  /\ NoDb

InitSpace == Constructed(0, Len(VarNames), AnyCands)

ReplaceVariable ==
  \E var_name \in {VarNames[j] : j \in 1..Len(VarNames)} \cup {UnknownName},
     f \in Ops :
    replace_variable(var_name, f)

NextSpace == ReplaceVariable

SpecSpace == InitSpace /\ [][NextSpace]_vars

\* Largest number of spaces merged.
MaxMerge == 2

\* Mutant of merge_inner: a record equal to one already in the list is not
\* appended.
RECURSIVE merge_inner_without_duplicates(_, _)
merge_inner_without_duplicates(param_list_, plist) ==
  IF plist = <<>> THEN param_list_
  ELSE merge_inner_without_duplicates(
         IF \E k \in 1..Len(param_list_) : param_list_[k].kv = Head(plist).kv
         THEN param_list_ ELSE Append(param_list_, Head(plist)),
         Tail(plist))

\* for p in m.param_list: param_list.append(p)
RECURSIVE merge_inner(_, _)
merge_inner(param_list_, plist) ==
  IF plist = <<>> THEN param_list_
  ELSE merge_inner(Append(param_list_, Head(plist)), Tail(plist))

\* DesignVariableSet.merge_parameter_lists(merge_list): param_list = [], then
\* the outer loop over merge_list.
RECURSIVE merge_parameter_lists(_)
merge_parameter_lists(ml) ==
  IF ml = <<>> THEN <<>>
  ELSE merge_inner(merge_parameter_lists(Front(ml)), Last(ml).param_list)

\* The spaces that are merged: constructed DesignVariableSets of at most one
\* variable with any candidates.
MergeSpaces ==
  {[design_var_sets |-> data, param_list |-> read_design_variable_set(data)] :
     data \in Spaces(0, 1, AnyCands)}

\* The call merge_parameter_lists(merge_list); the model keeps what it
\* returns in merged.
MergeParameterLists ==
  /\ op.name = "init"
  /\ op' = [name |-> "merge_parameter_lists", var |-> "", f |-> "", val |-> 0]
  /\ raised' = "none"
  /\ merged' = merge_parameter_lists(merge_list)
  /\ UNCHANGED <<space_vars, shared, set_vars, name_dict, removed, verify_vars,
                 calc_vars, db_vars, merge_list>>

\* -------------------------------------------------------------- ObjectSet
\* np.nan, the value pandas fills cells without data with.  No attribute
\* value and no weight equals it, and it compares unequal to everything.
NaN == 0

\* The weight attached to the parameter record with identity id.
Weight(id) == 100 + id

RECURSIVE SumVals(_)
SumVals(kv) == IF kv = <<>> THEN 0 ELSE Head(kv)[2] + SumVals(Tail(kv))

\* The factories: reference_class(**p) raises when a parameter has the value
\* raise_on; otherwise it returns an object exposing every parameter as an
\* attribute and a derived attribute "capacity", which it leaves unset when a
\* parameter has the value miss_on (0: never).
Factories == [raise_on : {0} \cup Values, miss_on : {0} \cup Values]
FactoryRaises(fac, p) == \E j \in 1..Len(p.kv) : p.kv[j][2] = fac.raise_on

\* p_instance = self.reference_class(**p) for the record at index i; src is
\* the identity of the object: the input index it was built from.
Instance(fac, i, p) ==
  [src |-> i, kv |-> p.kv,
   has_capacity |-> ~\E j \in 1..Len(p.kv) : p.kv[j][2] = fac.miss_on]

hasattr(inst, attr_name) ==
  \/ \E j \in 1..Len(inst.kv) : inst.kv[j][1] = attr_name
  \/ attr_name = "capacity" /\ inst.has_capacity

getattr(inst, attr_name) ==
  IF attr_name = "capacity" THEN 10 + SumVals(inst.kv)
  ELSE inst.kv[CHOOSE j \in 1..Len(inst.kv) : inst.kv[j][1] = attr_name][2]

\* Mutant of generate_step: the row is inserted at the top of the frame.
generate_step_row_on_top(acc, i, p, fac, df_columns) ==
  IF FactoryRaises(fac, p)
  THEN [acc EXCEPT !.skipped = Append(@, i)]
  ELSE LET p_instance == Instance(fac, i, p)
           appended == [acc EXCEPT !.obj_set = Append(@, p_instance)]
           attr_value_list ==
             [j \in 1..Len(df_columns) |-> getattr(p_instance, df_columns[j])]
       IN  IF \/ \E j \in 1..Len(df_columns) : ~hasattr(p_instance, df_columns[j])
              \/ df_columns = <<>>
           THEN [appended EXCEPT !.skipped = Append(@, i)]
           ELSE [appended EXCEPT
                   !.rows = <<[label |-> Len(@), src |-> {i},
                               vals |-> attr_value_list]>> \o @]

\* One iteration of the loop of generate_object_set (lines 141-158) for the
\* record p at index i.  The instance is appended to obj_set before its
\* attributes are read.  The except clause catches the factory's exception,
\* the ValueError of a missing attribute and the ValueError pandas raises
\* when a row is added by df.loc to a frame that has no columns.
generate_step(acc, i, p, fac, df_columns) ==
  IF FactoryRaises(fac, p)
  THEN [acc EXCEPT !.skipped = Append(@, i)]
  ELSE LET p_instance == Instance(fac, i, p)
           appended == [acc EXCEPT !.obj_set = Append(@, p_instance)]
           attr_value_list ==
             [j \in 1..Len(df_columns) |-> getattr(p_instance, df_columns[j])]
       IN  IF \/ \E j \in 1..Len(df_columns) : ~hasattr(p_instance, df_columns[j])
              \/ df_columns = <<>>
           THEN [appended EXCEPT !.skipped = Append(@, i)]
           ELSE [appended EXCEPT
                   !.rows = Append(@, [label |-> Len(@), src |-> {i},
                                       vals |-> attr_value_list])]

\* for i, p in enumerate(self.param_list), the first n records.
RECURSIVE generate_loop(_, _, _, _)
generate_loop(plist, n, fac, df_columns) ==
  IF n = 0 THEN [obj_set |-> <<>>, rows |-> <<>>, skipped |-> <<>>]
  ELSE generate_step(generate_loop(plist, n - 1, fac, df_columns),
                     n - 1, plist[n], fac, df_columns)

\* df["value_fn"] = self.value_fn (line 168) as pandas does it: a frame
\* without rows takes its index from a non-empty list (every other cell is
\* NaN); otherwise the list must have one item per row or ValueError is
\* raised.
AssignColumn(rows, ncols, w) ==
  IF Len(rows) = 0 /\ Len(w) > 0
  THEN [raised |-> "none",
        rows |-> [k \in 1..Len(w) |->
                    [label |-> k - 1, src |-> {},
                     vals |-> Append([j \in 1..ncols |-> NaN], w[k])]]]
  ELSE IF Len(w) # Len(rows)
  THEN [raised |-> "ValueError", rows |-> rows]
  ELSE [raised |-> "none",
        rows |-> [k \in 1..Len(rows) |->
                    [rows[k] EXCEPT !.vals = Append(@, w[k])]]]

\* ObjectSet.generate_object_set: what it raises, what it returns and the
\* skipped_indices it leaves.
generate_object_set(plist, fac, attrs, vfn) ==
  LET acc == generate_loop(plist, Len(plist), fac, attrs)
      col == AssignColumn(acc.rows, Len(attrs), vfn.list)
  IN  IF vfn.is_none
      THEN [raised |-> "none", obj_set |-> acc.obj_set, skipped |-> acc.skipped,
            df |-> [columns |-> attrs, rows |-> acc.rows]]
      ELSE [raised |-> col.raised, obj_set |-> acc.obj_set, skipped |-> acc.skipped,
            df |-> [columns |-> Append(attrs, "value_fn"), rows |-> col.rows]]

\* list(self.reference_class.__annotations__.keys()): the factory's class
\* declares its parameters and the derived attribute.
Annotations(data) == Append(keys(data), "capacity")

\* The report_attrs arguments: None (the default, the annotations), the
\* parameters, the derived attribute.
ReportAttrChoices(data) == {Annotations(data), keys(data), <<"capacity">>}

\* value_fn=None, the default.
None == [is_none |-> TRUE, list |-> <<>>]

\* The value_fn lists: an empty list, one weight per record.
ValueFnChoices(plist) ==
  {[is_none |-> FALSE, list |-> <<>>],
   [is_none |-> FALSE, list |-> [k \in 1..Len(plist) |-> Weight(plist[k].id)]]}

\* ObjectSet(reference_class=fac, param_list=space.param_list,
\* report_attrs=attrs, value_fn=vfn): the fields are assigned, then
\* __post_init__ assigns what generate_object_set returns.
ObjectSet(fac, attrs, vfn) ==
  /\ os_state = "absent"
  /\ \E r \in {generate_object_set(param_list, fac, attrs, vfn)} :
      /\ op' = [name |-> "ObjectSet", var |-> "", f |-> "", val |-> 0]
      /\ reference_class' = fac
      /\ os_param_list' = param_list
      /\ shared' = TRUE
      /\ report_attrs' = attrs
      /\ value_fn' = vfn
      /\ skipped_indices' = r.skipped
      /\ raised' = r.raised
      /\ IF r.raised = "none"
         THEN /\ os_state' = "live"
              /\ object_set' = r.obj_set
              /\ object_library' = r.df
         ELSE /\ os_state' = "failed"
              /\ UNCHANGED <<object_set, object_library>>
      /\ name_dict' = NoDict
      /\ UNCHANGED <<space_vars, returned, removed, beyond_sets>>

\* Mutant of GenerateObjectSet: skipped_indices is not emptied at the start
\* of the run.
GenerateObjectSetKeepsSkips ==
  /\ os_state = "live"
  /\ \E r \in {generate_object_set(os_param_list, reference_class, report_attrs, value_fn)} :
      /\ op' = [name |-> "generate_object_set", var |-> "", f |-> "", val |-> 0]
      /\ skipped_indices' = skipped_indices \o r.skipped
      /\ raised' = r.raised
      /\ returned' = IF r.raised = "none"
                     THEN [obj_set |-> r.obj_set, df |-> r.df] ELSE NoReturn
      /\ name_dict' = NoDict
      /\ UNCHANGED <<space_vars, shared, os_state, reference_class, os_param_list,
                     report_attrs, value_fn, object_set, object_library, removed,
                     beyond_sets>>

\* A direct call of generate_object_set on the constructed ObjectSet: it
\* assigns skipped_indices and returns the pair, which the model keeps in
\* returned.
GenerateObjectSet ==
  /\ os_state = "live"
  /\ \E r \in {generate_object_set(os_param_list, reference_class, report_attrs, value_fn)} :
      /\ op' = [name |-> "generate_object_set", var |-> "", f |-> "", val |-> 0]
      /\ skipped_indices' = r.skipped
      /\ raised' = r.raised
      /\ returned' = IF r.raised = "none"
                     THEN [obj_set |-> r.obj_set, df |-> r.df] ELSE NoReturn
      /\ name_dict' = NoDict
      /\ UNCHANGED <<space_vars, shared, os_state, reference_class, os_param_list,
                     report_attrs, value_fn, object_set, object_library, removed,
                     beyond_sets>>

\* The position of column c in the frame.
ColumnIndex(df, c) == CHOOSE j \in 1..Len(df.columns) : df.columns[j] = c

\* A query "c == v" is true of a row when the row's cell in column c is v; NaN
\* equals nothing.
Matches(df, row, q) ==
  LET cell == row.vals[ColumnIndex(df, q.col)] IN cell # NaN /\ cell = q.val

\* self.object_library.query(query_string).index: the labels of the rows the
\* query is true of.
QueryIndex(df, q) ==
  {df.rows[k].label : k \in {k \in 1..Len(df.rows) : Matches(df, df.rows[k], q)}}

\* sorted(list(remove_me), reverse=True)
RECURSIVE SortedReverse(_)
SortedReverse(S) ==
  IF S = {} THEN <<>>
  ELSE LET m == CHOOSE x \in S : \A y \in S : y <= x
       IN  <<m>> \o SortedReverse(S \ {m})

\* del lst[index] for 0 <= index < len(lst).
DelAt(lst, index) ==
  [k \in 1..(Len(lst) - 1) |-> IF k <= index THEN lst[k] ELSE lst[k + 1]]

\* Mutant of reduce_loop: the weights are not deleted.
RECURSIVE reduce_loop_keeps_weights(_, _, _)
reduce_loop_keeps_weights(indices, plist, vfn) ==
  IF indices = <<>> THEN [raised |-> "none", plist |-> plist, vfn |-> vfn]
  ELSE IF Head(indices) >= Len(plist)
       THEN [raised |-> "IndexError", plist |-> plist, vfn |-> vfn]
       ELSE reduce_loop_keeps_weights(Tail(indices), DelAt(plist, Head(indices)), vfn)

\* The loop of reduce_design_space (lines 180-183) over the remaining
\* indices: del raises IndexError for an index past the end of the list.
RECURSIVE reduce_loop(_, _, _)
reduce_loop(indices, plist, vfn) ==
  IF indices = <<>> THEN [raised |-> "none", plist |-> plist, vfn |-> vfn]
  ELSE LET index == Head(indices) IN
       IF index >= Len(plist)
       THEN [raised |-> "IndexError", plist |-> plist, vfn |-> vfn]
       ELSE IF vfn.is_none
       THEN reduce_loop(Tail(indices), DelAt(plist, index), vfn)
       ELSE IF index >= Len(vfn.list)
       THEN [raised |-> "IndexError", plist |-> DelAt(plist, index), vfn |-> vfn]
       ELSE reduce_loop(Tail(indices), DelAt(plist, index),
                        [vfn EXCEPT !.list = DelAt(@, index)])

\* ObjectSet.reduce_design_space(query_string).  The deletions change the
\* list object, which the DesignVariableSet sees while it shares it.
reduce_design_space(q) ==
  /\ os_state = "live"
  /\ \E d \in {reduce_loop(SortedReverse(QueryIndex(object_library, q)),
                           os_param_list, value_fn)} :
     \E r \in {generate_object_set(d.plist, reference_class, report_attrs, d.vfn)} :
      /\ op' = [name |-> "reduce_design_space", var |-> q.col, f |-> "", val |-> q.val]
      /\ os_param_list' = d.plist
      /\ value_fn' = d.vfn
      /\ param_list' = IF shared THEN d.plist ELSE param_list
      /\ IF d.raised # "none"
         THEN /\ raised' = d.raised
              /\ UNCHANGED <<object_set, object_library, skipped_indices>>
         ELSE /\ raised' = r.raised
              /\ skipped_indices' = r.skipped
              /\ IF r.raised = "none"
                 THEN object_set' = r.obj_set /\ object_library' = r.df
                 ELSE UNCHANGED <<object_set, object_library>>
      /\ returned' = NoReturn
      /\ name_dict' = NoDict
      /\ removed' = removed \cup {os_param_list[k].kv :
                                    k \in {k \in 1..Len(os_param_list) :
                                             \A j \in 1..Len(d.plist) :
                                               d.plist[j] # os_param_list[k]}}
      /\ UNCHANGED <<design_var_sets, shared, os_state, reference_class,
                     report_attrs, beyond_sets>>

\* The values of column c of the frame.
ColumnValues(df, c) ==
  {df.rows[k].vals[ColumnIndex(df, c)] : k \in 1..Len(df.rows)}

\* The queries made: a column of the table compared with a value of that
\* column, or with a value no cell has.
Queries(df) ==
  UNION {{[col |-> df.columns[j], val |-> v] :
            v \in (ColumnValues(df, df.columns[j]) \ {NaN}) \cup {3}} :
         j \in 1..Len(df.columns)}

HasColumn(df, c) == \E j \in 1..Len(df.columns) : df.columns[j] = c

\* list(self.object_library[index_name]): the column's cells in row order.
ColumnList(df, c) == [k \in 1..Len(df.rows) |-> df.rows[k].vals[ColumnIndex(df, c)]]

\* d[key] = val on a dict held as a sequence of <<key, value>> in insertion
\* order: an existing key keeps its position and takes the new value.
DictSet(d, key, val) ==
  IF \E j \in 1..Len(d) : d[j][1] = key
  THEN [j \in 1..Len(d) |-> IF d[j][1] = key THEN <<key, val>> ELSE d[j]]
  ELSE Append(d, <<key, val>>)

\* dict(zip(ks, vs)) over the first n pairs.
RECURSIVE DictZip(_, _, _)
DictZip(ks, vs, n) ==
  IF n = 0 THEN <<>> ELSE DictSet(DictZip(ks, vs, n - 1), ks[n], vs[n])

\* ObjectSet.make_name_dict(index_name): subscripting the frame with a name
\* that is no column raises KeyError.
make_name_dict(index_name) ==
  /\ os_state = "live"
  /\ op' = [name |-> "make_name_dict", var |-> index_name, f |-> "", val |-> 0]
  /\ returned' = NoReturn
  /\ IF ~HasColumn(object_library, index_name)
     THEN raised' = "KeyError" /\ name_dict' = NoDict
     ELSE LET vals == object_set
              ks == ColumnList(object_library, index_name)
          IN  /\ raised' = "none"
              /\ name_dict' = DictZip(ks, vals, Min(Len(ks), Len(vals)))
  /\ UNCHANGED <<space_vars, shared, os_state, reference_class, os_param_list,
                 report_attrs, value_fn, object_set, object_library,
                 skipped_indices, removed, beyond_sets>>

\* ObjectSet(reference_class=..., param_list=space.param_list,
\* report_attrs=...), value_fn left at its default.
ConstructObjectSet ==
  /\ os_state = "absent"
  /\ \E fac \in Factories, attrs \in ReportAttrChoices(design_var_sets) :
       ObjectSet(fac, attrs, None)

\* The same with a value_fn list.
ConstructObjectSetWithValueFn ==
  /\ os_state = "absent"
  /\ \E fac \in Factories, attrs \in ReportAttrChoices(design_var_sets),
        vfn \in ValueFnChoices(param_list) :
       ObjectSet(fac, attrs, vfn)

ReduceDesignSpace ==
  /\ os_state = "live"
  /\ \E q \in Queries(object_library) : reduce_design_space(q)

\* make_name_dict with a column of the table, or with a name no table has.
MakeNameDict ==
  /\ os_state = "live"
  /\ \E index_name \in {object_library.columns[j] : j \in 1..Len(object_library.columns)}
                        \cup {UnknownName} :
       make_name_dict(index_name)

\* A space of at least one variable, from which an ObjectSet is generated.
Init == Constructed(1, MaxSetVars, IncreasingCands)

\* An ObjectSet without value_fn, and the name dicts made of it.
Next ==
  \/ ConstructObjectSet
  \/ GenerateObjectSet
  \/ ReduceDesignSpace
  \/ MakeNameDict

Spec == Init /\ [][Next]_vars

\* An ObjectSet with or without value_fn.
NextValueFn ==
  \/ ConstructObjectSet
  \/ ConstructObjectSetWithValueFn
  \/ GenerateObjectSet
  \/ ReduceDesignSpace

SpecValueFn == Init /\ [][NextValueFn]_vars

\* A space and the ObjectSet built from its param_list, both in use: the
\* space's variables are replaced and the ObjectSet is regenerated and
\* reduced in any order.
NextLifecycle ==
  \/ ConstructObjectSet
  \/ GenerateObjectSet
  \/ ReduceDesignSpace
  \/ ReplaceVariable

\* A space of one variable.
InitLifecycle == Constructed(1, 1, IncreasingCands)

SpecLifecycle == InitLifecycle /\ [][NextLifecycle]_vars

\* ---------------------------------------------------- VerifiedObjectLibrary
\* The cells of the frames of a verification and the arguments and results of
\* error_calc are tagged values: a str, the float nan, or a number held as
\* the exact fraction n / d with d > 0 (d is 1 for the integers of the input
\* tables, DecimalScale for a result of round(x, 3)).
np_nan == [t |-> "nan", n |-> 0, d |-> 1, s |-> ""]
Str(x) == [t |-> "str", n |-> 0, d |-> 1, s |-> x]
Num(x) == [t |-> "num", n |-> x, d |-> 1, s |-> ""]
Frac(x, y) == [t |-> "num", n |-> x, d |-> y, s |-> ""]

\* "N/A", the not-applicable entry of the report.
NotApplicable == Str("N/A")

\* 10 ** 3 and 10 ** 2, the scales of round(result, 3) and round(coverage, 2).
DecimalScale == 1000
CoverageScale == 100

\* a == b on two values: nan equals nothing, a str equals the same str, two
\* numbers are equal when the fractions are.
PyEq(a, b) ==
  \/ a.t = "str" /\ b.t = "str" /\ a.s = b.s
  \/ a.t = "num" /\ b.t = "num" /\ a.n * b.d = b.n * a.d

\* round(a / b) to the nearest integer, ties to the even one (b # 0): what
\* round(x, ndigits) gives for x = a / (b * 10 ** ndigits).
RoundDiv(a, b) ==
  LET num == IF b < 0 THEN 0 - a ELSE a
      den == IF b < 0 THEN 0 - b ELSE b
      q == num \div den
      r == num - q * den
  IN  IF 2 * r < den THEN q
      ELSE IF 2 * r > den THEN q + 1
      ELSE IF q % 2 = 0 THEN q ELSE q + 1

\* Mutant of error_calc: the zero-reference branch is missing, so a zero
\* reference is divided by.
error_calc_divides_by_zero(g, v) ==
  IF g.t = "str"
  THEN [raised |-> "none", value |-> Str(IF PyEq(g, v) THEN "match" ELSE "not match")]
  ELSE IF v.t = "str"
  THEN [raised |-> "ValueError", value |-> np_nan]
  ELSE IF g.t = "nan" \/ v.t = "nan"
  THEN [raised |-> "none", value |-> np_nan]
  ELSE IF v.n = 0
  THEN [raised |-> "ZeroDivisionError", value |-> np_nan]
  ELSE [raised |-> "none",
        value |-> Frac(RoundDiv(100 * DecimalScale * (g.n - v.n), v.n), DecimalScale)]

\* Mutant of error_calc: the error is relative to the magnitude of the
\* reference value.
error_calc_by_magnitude(g, v) ==
  IF g.t = "str"
  THEN [raised |-> "none", value |-> Str(IF PyEq(g, v) THEN "match" ELSE "not match")]
  ELSE IF PyEq(v, Num(0))
  THEN [raised |-> "none",
        value |-> IF PyEq(v, g) THEN Num(0)
                  ELSE IF g.t = "nan" THEN np_nan ELSE Num((g.n \div g.n) * 100)]
  ELSE IF v.t = "str"
  THEN [raised |-> "ValueError", value |-> np_nan]
  ELSE IF g.t = "nan" \/ v.t = "nan"
  THEN [raised |-> "none", value |-> np_nan]
  ELSE [raised |-> "none",
        value |-> Frac(RoundDiv(100 * DecimalScale * (g.n - v.n),
                                IF v.n < 0 THEN 0 - v.n ELSE v.n), DecimalScale)]

\* Mutant of error_calc: a textual value is compared without regard to case
\* ("a" is the lower-case form of "A").
error_calc_ignoring_case(g, v) ==
  IF g.t = "str"
  THEN [raised |-> "none",
        value |-> Str(IF \/ PyEq(g, v)
                         \/ v.t = "str" /\ {g.s, v.s} = {"A", "a"}
                      THEN "match" ELSE "not match")]
  ELSE IF PyEq(v, Num(0))
  THEN [raised |-> "none",
        value |-> IF PyEq(v, g) THEN Num(0)
                  ELSE IF g.t = "nan" THEN np_nan ELSE Num((g.n \div g.n) * 100)]
  ELSE IF v.t = "str"
  THEN [raised |-> "ValueError", value |-> np_nan]
  ELSE IF g.t = "nan" \/ v.t = "nan"
  THEN [raised |-> "none", value |-> np_nan]
  ELSE [raised |-> "none",
        value |-> Frac(RoundDiv(100 * DecimalScale * (g.n - v.n), v.n), DecimalScale)]

\* VerifiedObjectLibrary.error_calc(generated_value, verify_value, c, param)
\* for integer, str and nan arguments: what it raises and what it returns.
\* float(verify_value) raises ValueError for a str that is no number; every
\* arithmetic operation on nan gives nan and round(nan, 3) is nan.
error_calc(g, v) ==
  IF g.t = "str"
  THEN [raised |-> "none", value |-> Str(IF PyEq(g, v) THEN "match" ELSE "not match")]
  ELSE IF PyEq(v, Num(0))
  THEN [raised |-> "none",
        value |-> IF PyEq(v, g) THEN Num(0)
                  ELSE IF g.t = "nan" THEN np_nan ELSE Num((g.n \div g.n) * 100)]
  ELSE IF v.t = "str"
  THEN [raised |-> "ValueError", value |-> np_nan]
  ELSE IF g.t = "nan" \/ v.t = "nan"
  THEN [raised |-> "none", value |-> np_nan]
  ELSE [raised |-> "none",
        value |-> Frac(RoundDiv(100 * DecimalScale * (g.n - v.n), v.n), DecimalScale)]

\* No DesignVariableSet call has been made; the space is the empty mapping.
NoSpaceCall ==
  /\ design_var_sets = <<>>
  /\ param_list = read_design_variable_set(design_var_sets)
  /\ op = NoCall
  /\ raised = "none"

\* The frame without rows and columns.
EmptyFrame == [columns |-> <<>>, rows |-> <<>>]

\* The columns of df other than c, in order: df.set_index(c).columns.
RECURSIVE Without(_, _)
Without(cols, c) ==
  IF cols = <<>> THEN <<>>
  ELSE IF Head(cols) = c THEN Without(Tail(cols), c)
       ELSE <<Head(cols)>> \o Without(Tail(cols), c)

\* i in df.set_index(key).index, and the position of the row with key i.
HasKeyRow(df, key, i) ==
  \E k \in 1..Len(df.rows) : PyEq(df.rows[k].vals[ColumnIndex(df, key)], i)
KeyRow(df, key, i) ==
  CHOOSE k \in 1..Len(df.rows) : PyEq(df.rows[k].vals[ColumnIndex(df, key)], i)

\* df.set_index(key).loc[i, param] for a key i that one row has.
Loc(df, key, i, param) == df.rows[KeyRow(df, key, i)].vals[ColumnIndex(df, param)]

\* Mutant of error_cell: the reference row is taken by position, not by key.
error_cell_by_position(lib_df, verify_df, key, k, param) ==
  IF k <= Len(verify_df.rows) /\ param # key /\ HasColumn(verify_df, param)
  THEN error_calc(lib_df.rows[k].vals[ColumnIndex(lib_df, param)],
                  verify_df.rows[k].vals[ColumnIndex(verify_df, param)])
  ELSE [raised |-> "none", value |-> np_nan]

\* One cell of error_df (lines 232-247): the outcome of error_calc when the
\* reference has the key and the column, nan otherwise.  The test
\* "== np.nan" of line 237 is False for every value.
error_cell(lib_df, verify_df, key, k, param) ==
  LET i == lib_df.rows[k].vals[ColumnIndex(lib_df, key)]
  IN  IF HasKeyRow(verify_df, key, i) /\ param # key /\ HasColumn(verify_df, param)
      THEN error_calc(lib_df.rows[k].vals[ColumnIndex(lib_df, param)],
                      Loc(verify_df, key, i, param))
      ELSE [raised |-> "none", value |-> np_nan]

\* VerifiedObjectLibrary.check_error for tables with unique keys: what it
\* raises and the frame it returns.  set_index raises KeyError when a table
\* lacks the key column.  The rows that iterrows yields are views of
\* error_df, so the assignments c[param] = ... fill error_df.
\* reset_index puts the key back as the first column and labels the rows by
\* position.
check_error(lib_df, verify_df, key) ==
  IF ~HasColumn(lib_df, key) \/ ~HasColumn(verify_df, key)
  THEN [raised |-> "KeyError", df |-> EmptyFrame]
  ELSE LET cols == Without(lib_df.columns, key)
           cell(k, j) == error_cell(lib_df, verify_df, key, k, cols[j])
           failed == {kj \in (1..Len(lib_df.rows)) \X (1..Len(cols)) :
                        cell(kj[1], kj[2]).raised # "none"}
       IN  IF failed # {}
           THEN [raised |-> LET kj == CHOOSE kj \in failed : TRUE
                            IN  cell(kj[1], kj[2]).raised,
                 df |-> EmptyFrame]
           ELSE [raised |-> "none",
                 df |-> [columns |-> <<key>> \o cols,
                         rows |-> [k \in 1..Len(lib_df.rows) |->
                            [label |-> k - 1,
                             vals |-> <<lib_df.rows[k].vals[ColumnIndex(lib_df, key)]>>
                                      \o [j \in 1..Len(cols) |-> cell(k, j).value]]]]]

\* series.dropna() as a list.
RECURSIVE dropna(_)
dropna(col) ==
  IF col = <<>> THEN <<>>
  ELSE IF Head(col).t = "nan" THEN dropna(Tail(col))
       ELSE <<Head(col)>> \o dropna(Tail(col))

\* A number in units of 1 / DecimalScale (its denominator divides DecimalScale).
Scaled(c) == c.n * (DecimalScale \div c.d)

RECURSIVE SumScaled(_)
SumScaled(col) == IF col = <<>> THEN 0 ELSE Scaled(Head(col)) + SumScaled(Tail(col))

RECURSIVE SumAbsScaled(_)
SumAbsScaled(col) ==
  IF col = <<>> THEN 0
  ELSE (IF Scaled(Head(col)) < 0 THEN 0 - Scaled(Head(col)) ELSE Scaled(Head(col)))
       + SumAbsScaled(Tail(col))

\* max(col) and min(col) of a non-empty list of numbers.
MaxOf(col) == col[CHOOSE k \in 1..Len(col) : \A j \in 1..Len(col) : Scaled(col[j]) <= Scaled(col[k])]
MinOf(col) == col[CHOOSE k \in 1..Len(col) : \A j \in 1..Len(col) : Scaled(col[j]) >= Scaled(col[k])]

\* (series == x).sum()
CountEq(col, x) == Cardinality({k \in 1..Len(col) : PyEq(col[k], x)})

\* Mutant of UncheckedRow: a column the reference lacks is reported with a
\* coverage of 0 and not-applicable errors.
UncheckedRowAsUncovered(param) ==
  [param |-> param, checked |-> "no", coverage |-> Num(0), max_error |-> NotApplicable,
   avg_error |-> NotApplicable, avg_abs_error |-> NotApplicable,
   min_error |-> NotApplicable, str_error |-> NotApplicable]

\* The row of the report for a column the reference lacks (lines 313-320).
UncheckedRow(param) ==
  [param |-> param, checked |-> "no", coverage |-> np_nan, max_error |-> np_nan,
   avg_error |-> np_nan, avg_abs_error |-> np_nan, min_error |-> np_nan,
   str_error |-> np_nan]

\* Mutant of report_row: the missing cells are counted as errors of 0 in the
\* numeric aggregates.
report_row_counting_missing(lib_df, verify_df, result_df_, param) ==
  IF ~HasColumn(verify_df, param)
  THEN [raised |-> "none", row |-> UncheckedRow(param)]
  ELSE IF Len(lib_df.rows) = 0
  THEN [raised |-> "ZeroDivisionError", row |-> UncheckedRow(param)]
  ELSE LET col == ColumnList(result_df_, param)
           present == dropna(col)
           filled == [k \in 1..Len(col) |-> IF col[k].t = "nan" THEN Num(0) ELSE col[k]]
           coverage == Frac(RoundDiv(Len(present) * 100 * CoverageScale, Len(lib_df.rows)),
                            CoverageScale)
           matched_num == CountEq(col, Str("match"))
           not_matched_num == CountEq(col, Str("not match"))
       IN  IF col[1].t = "str"
           THEN [raised |-> "none",
                 row |-> [param |-> param, checked |-> "yes", coverage |-> coverage,
                          max_error |-> NotApplicable, avg_error |-> NotApplicable,
                          avg_abs_error |-> NotApplicable, min_error |-> NotApplicable,
                          str_error |->
                            IF matched_num + not_matched_num = 0 THEN np_nan
                            ELSE Frac(not_matched_num * 100,
                                      matched_num + not_matched_num)]]
           ELSE IF present = <<>>
           THEN [raised |-> "none",
                 row |-> [param |-> param, checked |-> "yes", coverage |-> coverage,
                          max_error |-> NotApplicable, avg_error |-> NotApplicable,
                          avg_abs_error |-> NotApplicable, min_error |-> NotApplicable,
                          str_error |-> NotApplicable]]
           ELSE IF \E k \in 1..Len(present) : present[k].t = "str"
           THEN [raised |-> "TypeError", row |-> UncheckedRow(param)]
           ELSE [raised |-> "none",
                 row |-> [param |-> param, checked |-> "yes", coverage |-> coverage,
                          max_error |-> MaxOf(filled),
                          avg_error |-> Frac(SumScaled(filled), DecimalScale * Len(filled)),
                          avg_abs_error |->
                            Frac(SumAbsScaled(filled), DecimalScale * Len(filled)),
                          min_error |-> MinOf(filled),
                          str_error |-> NotApplicable]]

\* Mutant of report_row: the coverage is relative to the rows of the
\* reference table.
report_row_coverage_of_reference(lib_df, verify_df, result_df_, param) ==
  IF ~HasColumn(verify_df, param)
  THEN [raised |-> "none", row |-> UncheckedRow(param)]
  ELSE IF Len(verify_df.rows) = 0
  THEN [raised |-> "ZeroDivisionError", row |-> UncheckedRow(param)]
  ELSE LET col == ColumnList(result_df_, param)
           present == dropna(col)
           coverage == Frac(RoundDiv(Len(present) * 100 * CoverageScale,
                                     Len(verify_df.rows)), CoverageScale)
           matched_num == CountEq(col, Str("match"))
           not_matched_num == CountEq(col, Str("not match"))
       IN  IF col = <<>>
           THEN [raised |-> "KeyError", row |-> UncheckedRow(param)]
           ELSE IF col[1].t = "str"
           THEN [raised |-> "none",
                 row |-> [param |-> param, checked |-> "yes", coverage |-> coverage,
                          max_error |-> NotApplicable, avg_error |-> NotApplicable,
                          avg_abs_error |-> NotApplicable, min_error |-> NotApplicable,
                          str_error |->
                            IF matched_num + not_matched_num = 0 THEN np_nan
                            ELSE Frac(not_matched_num * 100,
                                      matched_num + not_matched_num)]]
           ELSE IF present = <<>>
           THEN [raised |-> "none",
                 row |-> [param |-> param, checked |-> "yes", coverage |-> coverage,
                          max_error |-> NotApplicable, avg_error |-> NotApplicable,
                          avg_abs_error |-> NotApplicable, min_error |-> NotApplicable,
                          str_error |-> NotApplicable]]
           ELSE IF \E k \in 1..Len(present) : present[k].t = "str"
           THEN [raised |-> "TypeError", row |-> UncheckedRow(param)]
           ELSE [raised |-> "none",
                 row |-> [param |-> param, checked |-> "yes", coverage |-> coverage,
                          max_error |-> MaxOf(present),
                          avg_error |-> Frac(SumScaled(present), DecimalScale * Len(present)),
                          avg_abs_error |->
                            Frac(SumAbsScaled(present), DecimalScale * Len(present)),
                          min_error |-> MinOf(present),
                          str_error |-> NotApplicable]]

\* Mutant of report_row: the string error is the share of matching cells.
report_row_match_rate(lib_df, verify_df, result_df_, param) ==
  IF ~HasColumn(verify_df, param)
  THEN [raised |-> "none", row |-> UncheckedRow(param)]
  ELSE IF Len(lib_df.rows) = 0
  THEN [raised |-> "ZeroDivisionError", row |-> UncheckedRow(param)]
  ELSE LET col == ColumnList(result_df_, param)
           present == dropna(col)
           coverage == Frac(RoundDiv(Len(present) * 100 * CoverageScale, Len(lib_df.rows)),
                            CoverageScale)
           matched_num == CountEq(col, Str("match"))
           not_matched_num == CountEq(col, Str("not match"))
       IN  IF col[1].t = "str"
           THEN [raised |-> "none",
                 row |-> [param |-> param, checked |-> "yes", coverage |-> coverage,
                          max_error |-> NotApplicable, avg_error |-> NotApplicable,
                          avg_abs_error |-> NotApplicable, min_error |-> NotApplicable,
                          str_error |->
                            IF matched_num + not_matched_num = 0 THEN np_nan
                            ELSE Frac(matched_num * 100,
                                      matched_num + not_matched_num)]]
           ELSE IF present = <<>>
           THEN [raised |-> "none",
                 row |-> [param |-> param, checked |-> "yes", coverage |-> coverage,
                          max_error |-> NotApplicable, avg_error |-> NotApplicable,
                          avg_abs_error |-> NotApplicable, min_error |-> NotApplicable,
                          str_error |-> NotApplicable]]
           ELSE IF \E k \in 1..Len(present) : present[k].t = "str"
           THEN [raised |-> "TypeError", row |-> UncheckedRow(param)]
           ELSE [raised |-> "none",
                 row |-> [param |-> param, checked |-> "yes", coverage |-> coverage,
                          max_error |-> MaxOf(present),
                          avg_error |-> Frac(SumScaled(present), DecimalScale * Len(present)),
                          avg_abs_error |->
                            Frac(SumAbsScaled(present), DecimalScale * Len(present)),
                          min_error |-> MinOf(present),
                          str_error |-> NotApplicable]]

\* One iteration of the loop of error_report (lines 273-320) for the column
\* param: what it raises and the entries it appends.  The division by
\* len(lib_df[param]) raises ZeroDivisionError for a table without rows.
\* The branch is chosen by the type of the first cell of the column,
\* result_df[param][0]; in the numeric branch sum() raises TypeError on a
\* str.  matched_num / (matched_num + not_matched_num) on the counts, which
\* are numpy integers, is nan for 0 / 0.
report_row(lib_df, verify_df, result_df_, param) ==
  IF ~HasColumn(verify_df, param)
  THEN [raised |-> "none", row |-> UncheckedRow(param)]
  ELSE IF Len(lib_df.rows) = 0
  THEN [raised |-> "ZeroDivisionError", row |-> UncheckedRow(param)]
  ELSE LET col == ColumnList(result_df_, param)
           present == dropna(col)
           coverage == Frac(RoundDiv(Len(present) * 100 * CoverageScale, Len(lib_df.rows)),
                            CoverageScale)
           matched_num == CountEq(col, Str("match"))
           not_matched_num == CountEq(col, Str("not match"))
       IN  IF col[1].t = "str"
           THEN [raised |-> "none",
                 row |-> [param |-> param, checked |-> "yes", coverage |-> coverage,
                          max_error |-> NotApplicable, avg_error |-> NotApplicable,
                          avg_abs_error |-> NotApplicable, min_error |-> NotApplicable,
                          str_error |->
                            IF matched_num + not_matched_num = 0 THEN np_nan
                            ELSE Frac(not_matched_num * 100,
                                      matched_num + not_matched_num)]]
           ELSE IF present = <<>>
           THEN [raised |-> "none",
                 row |-> [param |-> param, checked |-> "yes", coverage |-> coverage,
                          max_error |-> NotApplicable, avg_error |-> NotApplicable,
                          avg_abs_error |-> NotApplicable, min_error |-> NotApplicable,
                          str_error |-> NotApplicable]]
           ELSE IF \E k \in 1..Len(present) : present[k].t = "str"
           THEN [raised |-> "TypeError", row |-> UncheckedRow(param)]
           ELSE [raised |-> "none",
                 row |-> [param |-> param, checked |-> "yes", coverage |-> coverage,
                          max_error |-> MaxOf(present),
                          avg_error |-> Frac(SumScaled(present), DecimalScale * Len(present)),
                          avg_abs_error |->
                            Frac(SumAbsScaled(present), DecimalScale * Len(present)),
                          min_error |-> MinOf(present),
                          str_error |-> NotApplicable]]

\* VerifiedObjectLibrary.error_report: what it raises and the report, one row
\* per column of the generated table (the key column included), in order.
error_report(lib_df, verify_df, result_df_) ==
  LET out(j) == report_row(lib_df, verify_df, result_df_, lib_df.columns[j])
      failed == {j \in 1..Len(lib_df.columns) : out(j).raised # "none"}
  IN  IF failed # {}
      THEN [raised |-> out(CHOOSE j \in failed : \A i \in failed : j <= i).raised,
            rows |-> <<>>]
      ELSE [raised |-> "none", rows |-> [j \in 1..Len(lib_df.columns) |-> out(j).row]]

\* Largest number of rows of the generated table.
MaxRows == 3

\* The keys of the tables, and the reference values of the key at each
\* position: capacity and grade.
KeyNames == <<"k1", "k2", "k3", "k4", "k5">>
RefCapacity == <<0, 3, 1, 2, 4>>
RefGrade == <<"A", "B", "A", "B", "A">>

\* The generated tables: columns name (the key), capacity (numeric) and grade
\* (textual); the row at position k has the key KeyNames[k].
GenRowChoices == {<<Num(0), Str("A")>>, <<Num(1), Str("B")>>, <<Num(3), Str("A")>>}
GenTables ==
  UNION {{[columns |-> <<"name", "capacity", "grade">>,
           rows |-> [k \in 1..n |->
                       [label |-> k - 1, vals |-> <<Str(KeyNames[k])>> \o f[k]]]] :
            f \in [1..n -> GenRowChoices]} : n \in 0..MaxRows}

\* The reference tables: any subset of the keys (one more key than the
\* generated tables can have), listed from the last key to the first, and any
\* subset of the columns capacity and grade next to the key column.
RefColumnChoices == {<<"name">>, <<"name", "capacity">>, <<"name", "grade">>,
                     <<"name", "capacity", "grade">>}
RefCell(j, c) ==
  CASE c = "name" -> Str(KeyNames[j])
    [] c = "capacity" -> Num(RefCapacity[j])
    [] c = "grade" -> Str(RefGrade[j])
RefTables ==
  {[columns |-> cols,
    rows |-> LET order == SortedReverse(S)
             IN  [k \in 1..Len(order) |->
                    [label |-> k - 1,
                     vals |-> [j \in 1..Len(cols) |-> RefCell(order[k], cols[j])]]]] :
     S \in SUBSET (1..(MaxRows + 1)), cols \in RefColumnChoices}

\* The arguments of a verification: a generated table, a reference table and
\* the key column or a name that is no column.
InitVerify ==
  /\ NoSpaceCall
  /\ NoObjectSet
  /\ NoCalc
  /\ NoMerge
  /\ NoDb
  /\ vl_state = "absent"
  /\ vl_object_library \in GenTables
  /\ verification_library \in RefTables
  /\ lookup_index \in {"name", UnknownName}
  /\ result_df = EmptyFrame
  /\ report_df = <<>>

\* VerifiedObjectLibrary(object_library=..., verification_library=...,
\* lookup_index=...): __post_init__ assigns result_df, then report_df.
VerifiedObjectLibrary ==
  /\ vl_state = "absent"
  /\ op.name = "init"
  /\ \E r \in {check_error(vl_object_library, verification_library, lookup_index)} :
     \E rep \in {IF r.raised = "none"
                 THEN error_report(vl_object_library, verification_library, r.df)
                 ELSE [raised |-> r.raised, rows |-> <<>>]} :
       /\ op' = [name |-> "VerifiedObjectLibrary", var |-> lookup_index, f |-> "", val |-> 0]
       /\ raised' = rep.raised
       /\ result_df' = IF r.raised = "none" THEN r.df ELSE result_df
       /\ report_df' = rep.rows
       /\ vl_state' = IF rep.raised = "none" THEN "live" ELSE "failed"
  /\ UNCHANGED <<space_vars, shared, set_vars, name_dict, removed, calc_vars,
                 merge_vars, db_vars,
                 vl_object_library, verification_library, lookup_index>>

NextVerify == VerifiedObjectLibrary

SpecVerify == InitVerify /\ [][NextVerify]_vars

\* Largest magnitude of the small integers error_calc is called with.
MaxNum == 3

\* The arguments of error_calc: small integers, the values of the examples
\* error_calc(110, 100) and error_calc(90, 100) and their negatives, three
\* strs, nan.
CalcValues ==
  {Num(x) : x \in (0 - MaxNum)..MaxNum}
  \cup {Num(x) : x \in {90, 100, 110, 0 - 90, 0 - 100, 0 - 110}}
  \cup {Str(x) : x \in {"A", "B", "a"}}
  \cup {np_nan}

InitErrorCalc ==
  /\ NoSpaceCall
  /\ NoObjectSet
  /\ NoVerification
  /\ NoMerge
  /\ NoDb
  /\ generated_value \in CalcValues
  /\ verify_value \in CalcValues
  /\ error = np_nan

\* VerifiedObjectLibrary.error_calc(generated_value, verify_value, c, param),
\* a static method.
ErrorCalc ==
  /\ op.name = "init"
  /\ \E r \in {error_calc(generated_value, verify_value)} :
       /\ op' = [name |-> "error_calc", var |-> "", f |-> "", val |-> 0]
       /\ raised' = r.raised
       /\ error' = r.value
  /\ UNCHANGED <<space_vars, shared, set_vars, name_dict, removed, verify_vars,
                 merge_vars, db_vars, generated_value, verify_value>>

NextErrorCalc == ErrorCalc

SpecErrorCalc == InitErrorCalc /\ [][NextErrorCalc]_vars

\* ---------------------------------------------------- merge_parameter_lists
\* The argument of merge_parameter_lists: at most MaxMerge spaces, the same
\* space any number of times.
InitMerge ==
  /\ NoSpaceCall
  /\ NoObjectSet
  /\ NoVerification
  /\ NoCalc
  /\ NoDb
  /\ merge_list \in SeqsUpTo(MergeSpaces, MaxMerge)
  /\ merged = <<>>

NextMerge == MergeParameterLists

SpecMerge == InitMerge /\ [][NextMerge]_vars

\* ------------------------------------------------- database/population.py
\* The database is the set of its collection names and, per collection, the
\* list of what was inserted: "old" for the records a collection had at the
\* start, the file name for the records of a file.  A function that calls
\* input() is an action up to its first input() and an action per line typed.

\* Largest number of pairs of the population list.
MaxPairs == 2
\* Largest number of insertions into one collection.
MaxDocs == 3

\* The collection names of the population lists; "plates" is in none.
PopColls == {"beams", "bolts"}

\* What open() and json.load do with a file: "ok" gives a non-empty list of
\* records, "missing" raises FileNotFoundError, "invalid" raises another
\* exception (no JSON, or insert_many rejects the data).
FileStates == {"ok", "missing", "invalid"}

\* The lines typed at input().
Answers == {"yes", "YES", "no", "No", "maybe"}

\* str.lower() on the lines typed.
Lower(a) ==
  CASE a = "YES" -> "yes"
    [] a = "No" -> "no"
    [] OTHER -> a

\* The orders in which a set can be listed.
RECURSIVE Orderings(_)
Orderings(S) ==
  IF S = {} THEN {<<>>}
  ELSE UNION {{<<x>> \o t : t \in Orderings(S \ {x})} : x \in S}

\* unique_collection_names(population_list): list(set(...)), in an order the
\* set decides; the operator is the set of the lists it can return.
unique_collection_names(pl) ==
  Orderings({pl[k][1] : k \in 1..Len(pl)})

\* coll.drop() on the collection named c.
Drop(db, c) ==
  [collections |-> db.collections \ {c},
   documents |-> [db.documents EXCEPT ![c] = <<>>]]

\* for coll_name in col_list: coll.drop()
RECURSIVE DropAll(_, _)
DropAll(db, S) ==
  IF S = {} THEN db
  ELSE LET c == CHOOSE c \in S : TRUE IN DropAll(Drop(db, c), S \ {c})

\* The for loop of drop_new_collections up to the next input(): the names
\* that are not in col_list are passed over.
RECURSIVE NextExisting(_, _)
NextExisting(new_colls, col_list) ==
  IF new_colls = <<>> THEN <<>>
  ELSE IF Head(new_colls) \in col_list THEN new_colls
       ELSE NextExisting(Tail(new_colls), col_list)

\* drop_new_collections waiting at input() for the first of new_colls, or
\* returned when there is none.
DropNewWaiting(new_colls, col_list) ==
  IF NextExisting(new_colls, col_list) = <<>> THEN NoDbCall
  ELSE [fn |-> "drop_new_collections", col_list |-> col_list,
        new_colls |-> NextExisting(new_colls, col_list), stage |-> 0]

DbCall(name) == [name |-> name, var |-> "", f |-> "", val |-> 0]

not_db == <<space_vars, shared, set_vars, name_dict, removed, verify_vars,
            calc_vars, merge_vars>>

\* drop_all_collections_USE_WITH_CAUTION(db) up to the first input().
drop_all_collections_USE_WITH_CAUTION ==
  /\ call.fn = "none"
  /\ op' = DbCall("drop_all_collections_USE_WITH_CAUTION")
  /\ raised' = "none"
  /\ call' = [fn |-> "drop_all_collections_USE_WITH_CAUTION",
              col_list |-> collections, new_colls |-> <<>>, stage |-> 1]
  /\ UNCHANGED <<not_db, collections, documents, population_list, files, user_input>>

\* A line typed at one of the two prompts of
\* drop_all_collections_USE_WITH_CAUTION.
drop_all_collections_input(a) ==
  /\ call.fn = "drop_all_collections_USE_WITH_CAUTION"
  /\ user_input' = a
  /\ IF Lower(a) # "yes"
     THEN /\ call' = NoDbCall
          /\ UNCHANGED <<collections, documents>>
     ELSE IF call.stage = 1
     THEN /\ call' = [call EXCEPT !.stage = 2]
          /\ UNCHANGED <<collections, documents>>
     ELSE LET db == DropAll([collections |-> collections, documents |-> documents],
                            call.col_list)
          IN  /\ call' = NoDbCall
              /\ collections' = db.collections
              /\ documents' = db.documents
  /\ UNCHANGED <<not_db, op, raised, population_list, files>>

\* drop_new_collections(db, population_list) up to the first input().
drop_new_collections ==
  /\ call.fn = "none"
  /\ op' = DbCall("drop_new_collections")
  /\ raised' = "none"
  /\ \E new_colls \in unique_collection_names(population_list) :
       call' = DropNewWaiting(new_colls, collections)
  /\ UNCHANGED <<not_db, collections, documents, population_list, files, user_input>>

\* Mutant of drop_new_collections_input: every line but "no" drops the
\* collection.
drop_new_collections_input_unless_no(a) ==
  /\ call.fn = "drop_new_collections"
  /\ user_input' = a
  /\ LET coll_name == Head(call.new_colls)
         db == Drop([collections |-> collections, documents |-> documents], coll_name)
     IN  IF Lower(a) # "no"
         THEN /\ collections' = db.collections
              /\ documents' = db.documents
              /\ call' = DropNewWaiting(Tail(call.new_colls), call.col_list)
         ELSE /\ call' = DropNewWaiting(Tail(call.new_colls), call.col_list)
              /\ UNCHANGED <<collections, documents>>
  /\ UNCHANGED <<not_db, op, raised, population_list, files>>

\* A line typed at the prompt of drop_new_collections for the collection
\* coll_name: "yes" drops it, "no" leaves the while loop, anything else asks
\* again; then the for loop goes on to the next input().
drop_new_collections_input(a) ==
  /\ call.fn = "drop_new_collections"
  /\ user_input' = a
  /\ LET coll_name == Head(call.new_colls)
         db == Drop([collections |-> collections, documents |-> documents], coll_name)
     IN  IF Lower(a) = "yes"
         THEN /\ collections' = db.collections
              /\ documents' = db.documents
              /\ call' = DropNewWaiting(Tail(call.new_colls), call.col_list)
         ELSE IF Lower(a) = "no"
         THEN /\ call' = DropNewWaiting(Tail(call.new_colls), call.col_list)
              /\ UNCHANGED <<collections, documents>>
         ELSE UNCHANGED <<call, collections, documents>>
  /\ UNCHANGED <<not_db, op, raised, population_list, files>>

\* Mutant of populate_loop: on "no" a pair is loaded when its collection does
\* not exist at the time of its turn.
RECURSIVE populate_loop_by_current_collections(_, _, _, _, _)
populate_loop_by_current_collections(pl, answer, col_list, fs, db) ==
  IF pl = <<>> THEN db
  ELSE LET coll_name == Head(pl)[1]
           fname == Head(pl)[2]
           done == IF /\ \/ answer = "yes"
                         \/ answer = "no" /\ coll_name \notin db.collections
                      /\ fs[fname] = "ok"
                   THEN [collections |-> db.collections \cup {coll_name},
                         documents |-> [db.documents EXCEPT
                                          ![coll_name] = Append(@, fname)]]
                   ELSE db
       IN  populate_loop_by_current_collections(Tail(pl), answer, col_list, fs, done)

\* The for loop of populate_db (lines 129-146): a pair is taken on "yes", or
\* on "no" when its collection is not in col_list; insert_many creates the
\* collection; FileNotFoundError and every other Exception are caught and
\* the loop goes on.  The line typed is compared as it is.
RECURSIVE populate_loop(_, _, _, _, _)
populate_loop(pl, answer, col_list, fs, db) ==
  IF pl = <<>> THEN db
  ELSE LET coll_name == Head(pl)[1]
           fname == Head(pl)[2]
           done == IF /\ \/ answer = "yes"
                         \/ answer = "no" /\ coll_name \notin col_list
                      /\ fs[fname] = "ok"
                   THEN [collections |-> db.collections \cup {coll_name},
                         documents |-> [db.documents EXCEPT
                                          ![coll_name] = Append(@, fname)]]
                   ELSE db
       IN  populate_loop(Tail(pl), answer, col_list, fs, done)

\* populate_db(db, population_list, json_path) up to input().  Calls that
\* would insert more than MaxDocs times into a collection are left out.
populate_db ==
  /\ call.fn = "none"
  /\ \A c \in CollNames : Len(documents[c]) + Len(population_list) <= MaxDocs
  /\ op' = DbCall("populate_db")
  /\ raised' = "none"
  /\ call' = [fn |-> "populate_db", col_list |-> collections,
              new_colls |-> <<>>, stage |-> 0]
  /\ UNCHANGED <<not_db, collections, documents, population_list, files, user_input>>

\* The line typed at the prompt of populate_db, and the loop after it.
populate_db_input(a) ==
  /\ call.fn = "populate_db"
  /\ user_input' = a
  /\ LET db == populate_loop(population_list, a, call.col_list, files,
                             [collections |-> collections, documents |-> documents])
     IN  /\ collections' = db.collections
         /\ documents' = db.documents
  /\ call' = NoDbCall
  /\ UNCHANGED <<not_db, op, raised, population_list, files>>

\* A database with any of the collections, a population list of at most
\* MaxPairs pairs and the files in any state.
InitDb ==
  /\ NoSpaceCall
  /\ NoObjectSet
  /\ NoVerification
  /\ NoCalc
  /\ NoMerge
  /\ collections \in SUBSET CollNames
  /\ documents = [c \in CollNames |-> IF c \in collections THEN <<"old">> ELSE <<>>]
  /\ population_list \in SeqsUpTo(PopColls \X FileNames, MaxPairs)
  /\ files \in [FileNames -> FileStates]
  /\ call = NoDbCall
  /\ user_input = ""

DropAllCollectionsInput == \E a \in Answers : drop_all_collections_input(a)
DropNewCollectionsInput == \E a \in Answers : drop_new_collections_input(a)
PopulateDbInput == \E a \in Answers : populate_db_input(a)

NextDb ==
  \/ drop_all_collections_USE_WITH_CAUTION
  \/ DropAllCollectionsInput
  \/ drop_new_collections
  \/ DropNewCollectionsInput
  \/ populate_db
  \/ PopulateDbInput

SpecDb == InitDb /\ [][NextDb]_vars

\* --------------------------------------------------------- claims: ObjectSet
\* The last call ran generate_object_set to its end and returned.
Generated ==
  /\ op.name \in {"ObjectSet", "generate_object_set", "reduce_design_space"}
  /\ os_state = "live"
  /\ raised = "none"

\* The pair the last generation produced.
LastSet == IF op.name = "generate_object_set" THEN returned.obj_set ELSE object_set
LastTable == IF op.name = "generate_object_set" THEN returned.df ELSE object_library

\* The factory raises for p, or the object it returns lacks a report attribute.
Fails(fac, attrs, p) ==
  \/ \E j \in 1..Len(p.kv) : p.kv[j][2] = fac.raise_on
  \/ \E a \in 1..Len(attrs) :
       /\ \A j \in 1..Len(p.kv) : p.kv[j][1] # attrs[a]
       /\ \/ attrs[a] # "capacity"
          \/ \E j \in 1..Len(p.kv) : p.kv[j][2] = fac.miss_on

\* The zero-based indices of the records of the ObjectSet's param_list for
\* which generation fails.
FailureSet ==
  {i \in 0..(Len(os_param_list) - 1) :
     Fails(reference_class, report_attrs, os_param_list[i + 1])}

Range(s) == {s[k] : k \in 1..Len(s)}
Distinct(s) == \A i, j \in 1..Len(s) : i # j => s[i] # s[j]

\* C1: a generation over N records of which exactly those at the index set F
\* fail (factory raised or report attribute missing) gives a table of
\* N - |F| rows with the report attributes as columns, and skipped_indices
\* holds exactly the indices of F, each once.
C1_SkipAccounting ==
  Generated
  => /\ Len(LastTable.rows) = Len(os_param_list) - Cardinality(FailureSet)
     /\ SubSeq(LastTable.columns, 1, Len(report_attrs)) = report_attrs
     /\ Range(skipped_indices) = FailureSet
     /\ Len(skipped_indices) = Cardinality(FailureSet)

\* C2: after every generation object_set and object_library have the same
\* length and neither holds an object or a row built from a skipped record,
\* whether the factory raised or a report attribute was missing.
C2_ProducedMatchesTable ==
  Generated
  => /\ Len(LastSet) = Len(LastTable.rows)
     /\ \A k \in 1..Len(LastSet) : LastSet[k].src \notin Range(skipped_indices)
     /\ \A k \in 1..Len(LastTable.rows) :
          LastTable.rows[k].src \cap Range(skipped_indices) = {}

\* value_fn is None or holds one weight per record of the param_list.
WeightPerRecord == value_fn.is_none \/ Len(value_fn.list) = Len(os_param_list)

\* C3: construction and generate_object_set never raise, with or without a
\* value_fn list of one weight per parameter record.
C3_GenerationNeverRaises ==
  (op.name \in {"ObjectSet", "generate_object_set"} /\ WeightPerRecord)
  => raised = "none"

\* The records of plist at the zero-based indices outside S, in order.
RECURSIVE Outside(_, _, _)
Outside(plist, n, S) ==
  IF n = 0 THEN <<>>
  ELSE IF (n - 1) \in S THEN Outside(plist, n - 1, S)
       ELSE Append(Outside(plist, n - 1, S), plist[n])

\* The input positions of the rows of the table that the query is true of.
MatchingInputs(df, q) ==
  UNION {df.rows[k].src : k \in {k \in 1..Len(df.rows) : Matches(df, df.rows[k], q)}}

\* C4: reduce_design_space(query) deletes from param_list exactly the records
\* at the original input positions of the rows the query is true of, keeps
\* every other record in order, and regenerates the table from the reduced
\* list.
C4_ReduceStep ==
  (op'.name = "reduce_design_space" /\ raised' = "none")
  => /\ os_param_list' =
          Outside(os_param_list, Len(os_param_list),
                  MatchingInputs(object_library, [col |-> op'.var, val |-> op'.val]))
     /\ object_library' =
          generate_object_set(os_param_list', reference_class, report_attrs, value_fn').df

C4_ReduceRemovesMatchingRecords == [][C4_ReduceStep]_vars

\* value_fn and param_list have the same length and every record is at the
\* index of the weight it was paired with.
Aligned ==
  /\ Len(value_fn.list) = Len(os_param_list)
  /\ \A k \in 1..Len(os_param_list) :
       value_fn.list[k] = Weight(os_param_list[k].id)

C5_AlignedStep ==
  (os_state = "live" /\ ~value_fn.is_none /\ Aligned) => Aligned'

\* C5: with a value_fn list of one weight per record attached, after any
\* sequence of reduce_design_space calls value_fn and param_list have the same
\* length and every remaining record is at the index of the weight it was
\* paired with: no call on an ObjectSet whose lists are aligned misaligns them.
C5_WeightsStayAligned == [][C5_AlignedStep]_vars

\* A reduction with weights attached deleted the first record and kept others.
C5_Witness ==
  /\ os_state = "live"
  /\ op.name = "reduce_design_space"
  /\ ~value_fn.is_none
  /\ Aligned
  /\ Len(os_param_list) >= 2
  /\ os_param_list[1].id # 0
  /\ os_param_list[2].id > os_param_list[1].id + 1

\* The zero-based indices below n that are not in S, in increasing order.
RECURSIVE KeptIndices(_, _)
KeptIndices(n, S) ==
  IF n = 0 THEN <<>>
  ELSE IF (n - 1) \in S THEN KeptIndices(n - 1, S)
       ELSE Append(KeptIndices(n - 1, S), n - 1)

\* The value the object built from record p exposes under the name a.
Exposed(p, a) ==
  IF a = "capacity" THEN 10 + SumVals(p.kv)
  ELSE p.kv[CHOOSE j \in 1..Len(p.kv) : p.kv[j][1] = a][2]

C12_RegenerateStep ==
  (Generated /\ op'.name = "generate_object_set")
  => /\ raised' = "none"
     /\ returned'.df = LastTable
     /\ skipped_indices' = skipped_indices

C12_GenerationIsIdempotent == [][C12_RegenerateStep]_vars

\* A second generation that skipped a record and produced a row.
C12_Witness ==
  /\ op.name = "generate_object_set"
  /\ raised = "none"
  /\ returned.df = object_library
  /\ Len(returned.df.rows) >= 1
  /\ skipped_indices # <<>>

\* C13: when the key column has unique values, make_name_dict(key) returns
\* one entry per row of the table, in row order, mapping the row's key to the
\* object the row was projected from.
C13_NameDictPairsRowWithItsObject ==
  (/\ op.name = "make_name_dict"
   /\ raised = "none"
   /\ Distinct(ColumnList(object_library, op.var)))
  => /\ Len(name_dict) = Len(object_library.rows)
     /\ \A k \in 1..Len(name_dict) :
          /\ name_dict[k][1] = object_library.rows[k].vals[ColumnIndex(object_library, op.var)]
          /\ {name_dict[k][2].src} = object_library.rows[k].src

\* C27: after construction with a non-empty value_fn list of one weight per
\* record, the table has the extra last column value_fn and the entry in
\* row j is the weight at position j of the list, also when records were
\* skipped; with no list or an empty list the table has the report columns
\* only.
C27_ValueFnColumn ==
  op.name = "ObjectSet"
  => /\ raised = "none"
     /\ IF value_fn.is_none \/ value_fn.list = <<>>
        THEN object_library.columns = report_attrs
        ELSE /\ object_library.columns = Append(report_attrs, "value_fn")
             /\ \A j \in 1..Len(object_library.rows) :
                  /\ j <= Len(value_fn.list)
                  /\ Last(object_library.rows[j].vals) = value_fn.list[j]

\* s is t with some items left out.
RECURSIVE IsSubsequence(_, _)
IsSubsequence(s, t) ==
  IF s = <<>> THEN TRUE
  ELSE IF t = <<>> THEN FALSE
  ELSE IF Head(s) = Head(t) THEN IsSubsequence(Tail(s), Tail(t))
  ELSE IsSubsequence(s, Tail(t))

\* The cells of the rows of the table that the query is not true of, in row
\* order.
RECURSIVE Unmatched(_, _, _)
Unmatched(df, n, q) ==
  IF n = 0 THEN <<>>
  ELSE IF Matches(df, df.rows[n], q) THEN Unmatched(df, n - 1, q)
       ELSE Append(Unmatched(df, n - 1, q), df.rows[n].vals)

C29_ReduceStep ==
  (op'.name = "reduce_design_space" /\ raised' = "none")
  => LET q == [col |-> op'.var, val |-> op'.val]
     IN  /\ \A k \in 1..Len(object_library'.rows) :
              ~Matches(object_library', object_library'.rows[k], q)
         /\ IsSubsequence(Unmatched(object_library, Len(object_library.rows), q),
                          [k \in 1..Len(object_library'.rows) |->
                             object_library'.rows[k].vals])

\* C29: after reduce_design_space(query) has returned, no row of the
\* regenerated table satisfies the query, and the rows that did not satisfy
\* it before the call are still in the table, in the same relative order.
C29_NoMatchingRowRemains == [][C29_ReduceStep]_vars

\* C25: whenever an ObjectSet built from the space's param_list exists,
\* after any calls of replace_variable and reduce_design_space,
\* object_library is the table that generate_object_set produces from the
\* space's current param_list.
C25_TableNeverStale ==
  os_state = "live"
  => object_library =
       generate_object_set(param_list, reference_class, report_attrs, value_fn).df

\* The key-value pairs of the records of a parameter list.
RecordSet(plist) == {plist[k].kv : k \in 1..Len(plist)}

\* C26: a parameter record that reduce_design_space removed is, after any
\* later calls of generate_object_set, reduce_design_space and
\* replace_variable, neither in the ObjectSet's param_list nor in the
\* param_list of the space the ObjectSet was built from.
C26_RemovedNeverReappears ==
  os_state = "live"
  => /\ removed \cap RecordSet(os_param_list) = {}
     /\ removed \cap RecordSet(param_list) = {}

\* ------------------------------------------------- claims: DesignVariableSet
\* The product of the candidate-sequence lengths (1 for no variable).
RECURSIVE LenProd(_)
LenProd(data) ==
  IF data = <<>> THEN 1 ELSE Len(Last(data).vals) * LenProd(Front(data))

\* The product of the lengths of the variables declared after variable k.
RECURSIVE Stride(_, _)
Stride(data, k) ==
  IF k >= Len(data) THEN 1 ELSE Len(data[k + 1].vals) * Stride(data, k + 1)

\* The combinations of candidates: one candidate per variable.
Combos(data) ==
  {c \in [1..Len(data) -> Values] :
     \A j \in 1..Len(data) : \E k \in 1..Len(data[j].vals) : data[j].vals[k] = c[j]}

RecordVals(r) == [j \in 1..Len(r.kv) |-> r.kv[j][2]]
RecordKeys(r) == [j \in 1..Len(r.kv) |-> r.kv[j][1]]

\* How many records of plist give variable number j the value v.
Marginal(plist, j, v) ==
  Cardinality({i \in 1..Len(plist) : plist[i].kv[j][2] = v})

\* How often v occurs in the sequence s.
Occurrences(s, v) == Cardinality({k \in 1..Len(s) : s[k] = v})

\* C6: for variables with pairwise distinct candidates of lengths a, b, c the
\* param_list has a*b*c records, every record assigns each variable one of its
\* candidates, every combination of candidates occurs exactly once, and an
\* empty candidate sequence gives an empty param_list without an error.
C6_CartesianProduct ==
  (/\ Len(design_var_sets) >= 1
   /\ \A j \in 1..Len(design_var_sets) : Distinct(design_var_sets[j].vals))
  => /\ op.name = "init" => raised = "none"
     /\ Len(param_list) = LenProd(design_var_sets)
     /\ \A i \in 1..Len(param_list) :
          /\ RecordKeys(param_list[i]) = keys(design_var_sets)
          /\ RecordVals(param_list[i]) \in Combos(design_var_sets)
     /\ \A c \in Combos(design_var_sets) :
          Cardinality({i \in 1..Len(param_list) : RecordVals(param_list[i]) = c}) = 1
     /\ (\E j \in 1..Len(design_var_sets) : design_var_sets[j].vals = <<>>)
          => param_list = <<>>

\* Three variables with two distinct candidates each: eight records.
C6_Witness ==
  /\ op.name = "init"
  /\ Len(design_var_sets) = 3
  /\ \A j \in 1..3 : Len(design_var_sets[j].vals) = 2 /\ Distinct(design_var_sets[j].vals)
  /\ Len(param_list) = 8

\* C7 as claimed: an empty design_var_sets mapping gives an empty param_list.
C7_EmptyMappingEmptyList ==
  design_var_sets = <<>>
  => /\ param_list = <<>>
     /\ op.name = "init" => raised = "none"

\* C7 amended: an empty design_var_sets mapping gives a param_list of exactly
\* one record, the empty record, and construction raises no error.
C7_EmptyMappingOneEmptyRecord ==
  design_var_sets = <<>>
  => /\ Len(param_list) = 1
     /\ param_list[1].kv = <<>>
     /\ op.name = "init" => raised = "none"

C7_Witness == op.name = "init" /\ design_var_sets = <<>> /\ Len(param_list) = 1

\* C8: param_list is in odometer order: the record at zero-based position i
\* gives variable k the candidate at index (i div stride(k)) mod len(k), where
\* stride(k) is the product of the lengths of the variables declared after k,
\* so the first variable varies slowest and the last cycles fastest.
C8_OdometerOrder ==
  /\ Len(param_list) = LenProd(design_var_sets)
  /\ \A i \in 1..Len(param_list) :
       /\ Len(param_list[i].kv) = Len(design_var_sets)
       /\ \A k \in 1..Len(design_var_sets) :
            LET vals == design_var_sets[k].vals
                at == (((i - 1) \div Stride(design_var_sets, k)) % Len(vals)) + 1
            IN  param_list[i].kv[k] = <<design_var_sets[k].name, vals[at]>>

\* Three variables of two candidates each; the second record differs from the
\* first in the last variable only.
C8_Witness ==
  /\ op.name = "init"
  /\ Len(design_var_sets) = 3
  /\ \A j \in 1..3 : design_var_sets[j].vals = <<1, 2>>
  /\ RecordVals(param_list[2]) = <<1, 1, 2>>
  /\ RecordVals(param_list[5]) = <<2, 1, 1>>

\* C9: after construction and after every successful replace_variable(X, op)
\* param_list is the full expansion of the current design_var_sets; X's
\* candidates are op applied to each old candidate in order, the declaration
\* order and every other variable's candidates are unchanged, the record count
\* is that of the expansion before the call, and every other variable takes
\* each value in as many records as in the expansion before the call.
C9_ReplaceStep ==
  (op'.name = "replace_variable" /\ raised' = "none")
  => LET k == KeyIndex(design_var_sets, op'.var)
         old == design_var_sets[k].vals
         new == design_var_sets'[k].vals
         before == read_design_variable_set(design_var_sets)
     IN  /\ HasKey(design_var_sets, op'.var)
         /\ keys(design_var_sets') = keys(design_var_sets)
         /\ Len(new) = Len(old)
         /\ \A j \in 1..Len(old) : new[j] = ApplyOp(op'.f, old[j])
         /\ \A j \in 1..Len(design_var_sets) :
              j # k => design_var_sets'[j].vals = design_var_sets[j].vals
         /\ param_list' = read_design_variable_set(design_var_sets')
         /\ Len(param_list') = LenProd(design_var_sets)
         /\ \A j \in 1..Len(design_var_sets) : \A v \in Values :
              j # k => /\ Marginal(param_list', j, v) = Marginal(before, j, v)
                       /\ Marginal(param_list', j, v) * Len(design_var_sets[j].vals)
                            = Occurrences(design_var_sets[j].vals, v) * LenProd(design_var_sets)

C9_ExpansionNeverStale ==
  /\ [](param_list = read_design_variable_set(design_var_sets))
  /\ [][C9_ReplaceStep]_vars

\* A successful replacement in a space of at least two variables and four
\* records that changed the candidates of the replaced variable.
C9_Witness ==
  /\ op.name = "replace_variable"
  /\ raised = "none"
  /\ Len(design_var_sets) >= 2
  /\ Len(param_list) >= 4
  /\ op.f = "swap"

\* C10: replace_variable with an undeclared name raises KeyError, and a call
\* that raises (KeyError, or the transform raising on a candidate) leaves
\* design_var_sets and param_list as they were.
C10_FailedReplaceStep ==
  /\ (op'.name = "replace_variable" /\ ~HasKey(design_var_sets, op'.var))
       => raised' = "KeyError"
  /\ (op'.name = "replace_variable" /\ raised' # "none")
       => UNCHANGED <<design_var_sets, param_list>>

C10_FailedReplaceIsAtomic == [][C10_FailedReplaceStep]_vars

\* A failed replacement (undeclared name) on a space of several records.
C10_Witness ==
  /\ op.name = "replace_variable"
  /\ raised = "KeyError"
  /\ Len(param_list) >= 2

\* The number of records of the first n spaces of a list of spaces.
RECURSIVE Offset(_, _)
Offset(ml, n) ==
  IF n = 0 THEN 0 ELSE Offset(ml, n - 1) + Len(ml[n].param_list)

C23_MergeStep ==
  op'.name = "merge_parameter_lists"
  => /\ Len(merged') = Offset(merge_list, Len(merge_list))
     /\ \A i \in 1..Len(merge_list) :
          \A j \in 1..Len(merge_list[i].param_list) :
            merged'[Offset(merge_list, i - 1) + j] = merge_list[i].param_list[j]
     /\ merge_list' = merge_list

\* C23: merge_parameter_lists returns the concatenation of the spaces'
\* param_lists: as many records as the spaces have together, record j of
\* space i after the records of the spaces before i and the records of
\* space i before j, equal records kept, and the param_list of every space
\* as it was before the call.
C23_MergeConcatenates == [][C23_MergeStep]_vars

\* Two spaces with a record in common were merged.
C23_Witness ==
  /\ op.name = "merge_parameter_lists"
  /\ Len(merge_list) = 2
  /\ Len(merge_list[1].param_list) = 2
  /\ Len(merge_list[2].param_list) = 2
  /\ merge_list[1].param_list[1].kv # merge_list[1].param_list[2].kv
  /\ merge_list[2].param_list[1].kv = merge_list[1].param_list[2].kv
  /\ Len(merged) = 4
  /\ merged[2].kv = merged[3].kv

\* ------------------------------------------- claims: VerifiedObjectLibrary
\* error_calc was called with a number as generated value and a nonzero
\* number as reference value.
NumericCall ==
  /\ op.name = "error_calc"
  /\ generated_value.t = "num"
  /\ verify_value.t = "num"
  /\ verify_value.n # 0

Abs(x) == IF x < 0 THEN 0 - x ELSE x

\* The value returned is ((g - r) / r) * 100 rounded to 3 decimals: a number
\* of thousandths m / 1000 with |m / 1000 - 100 * (g - r) / r| <= 1 / 2000.
RoundedPercentage ==
  /\ raised = "none"
  /\ error.t = "num"
  /\ error.d = 1000
  /\ Abs(2 * error.n * verify_value.n
         - 200000 * (generated_value.n - verify_value.n)) <= Abs(verify_value.n)

\* C16 as claimed: for a numeric g and a nonzero reference r, error_calc
\* returns ((g - r) / r) * 100 rounded to 3 decimals, positive whenever g
\* exceeds r and negative whenever g is below r.
C16_SignFollowsDifference ==
  NumericCall
  => /\ RoundedPercentage
     /\ generated_value.n > verify_value.n => error.n > 0
     /\ generated_value.n < verify_value.n => error.n < 0

\* C16 amended: for a numeric g and a nonzero reference r, error_calc returns
\* ((g - r) / r) * 100 rounded to 3 decimals; a result above zero means that
\* g - r and r have the same sign, a result below zero that they have
\* opposite signs, and g == r gives zero.
C16_SignFollowsQuotient ==
  NumericCall
  => /\ RoundedPercentage
     /\ error.n > 0 => (generated_value.n - verify_value.n) * verify_value.n > 0
     /\ error.n < 0 => (generated_value.n - verify_value.n) * verify_value.n < 0
     /\ generated_value.n = verify_value.n => error.n = 0

\* error_calc(110, 100) == 10.0, and a negative reference below the generated
\* value with a result below zero.
C16_Witness ==
  /\ NumericCall
  /\ \/ generated_value.n = 110 /\ verify_value.n = 100 /\ error.n = 10000
     \/ generated_value.n = 0 - 90 /\ verify_value.n = 0 - 100 /\ error.n = 0 - 10000

\* C17: for a numeric g and the reference 0, error_calc returns 0 when g is 0
\* and exactly 100 for every other g, positive or negative, and raises no
\* division by zero.
C17_ZeroReference ==
  (/\ op.name = "error_calc"
   /\ generated_value.t = "num"
   /\ verify_value = Num(0))
  => /\ raised = "none"
     /\ error.t = "num"
     /\ generated_value.n = 0 => error.n = 0
     /\ generated_value.n # 0 => error.n = 100 * error.d

\* error_calc(-3, 0) == 100.
C17_Witness ==
  /\ op.name = "error_calc"
  /\ verify_value = Num(0)
  /\ generated_value.t = "num"
  /\ generated_value.n < 0
  /\ error = Num(100)

\* C18: for a textual generated value error_calc returns "match" when the
\* reference is the same str, character for character, and "not match" for
\* every other reference of any type; it never returns a number.
C18_TextualMatch ==
  (op.name = "error_calc" /\ generated_value.t = "str")
  => /\ raised = "none"
     /\ error.t = "str"
     /\ error.s = IF verify_value.t = "str" /\ verify_value.s = generated_value.s
                  THEN "match" ELSE "not match"

\* error_calc("A", "a") == "not match".
C18_Witness ==
  /\ op.name = "error_calc"
  /\ generated_value = Str("A")
  /\ verify_value = Str("a")
  /\ error = Str("not match")

\* A verification was constructed with the key column of both tables.
Verified ==
  /\ op.name = "VerifiedObjectLibrary"
  /\ lookup_index = "name"

\* The position in the reference table of the row with the key of generated
\* row k, 0 if the reference has no such row.
RefRowOf(k) ==
  LET same == {j \in 1..Len(verification_library.rows) :
                 verification_library.rows[j].vals[1] = vl_object_library.rows[k].vals[1]}
  IN  IF same = {} THEN 0 ELSE CHOOSE j \in same : TRUE

\* The position of column c in the reference table, 0 if it has no such column.
RefColumnOf(c) ==
  LET same == {j \in 1..Len(verification_library.columns) :
                 verification_library.columns[j] = c}
  IN  IF same = {} THEN 0 ELSE CHOOSE j \in same : TRUE

\* C14: for a generated table with at least one row, a reference table and a
\* key column present in both, with any keys and columns missing from the
\* reference, constructing VerifiedObjectLibrary raises nothing and gives a
\* per-cell table with one row per generated row and a report with one row
\* per generated column.
C14_VerificationCompletes ==
  (Verified /\ Len(vl_object_library.rows) >= 1)
  => /\ raised = "none"
     /\ vl_state = "live"
     /\ Len(result_df.rows) = Len(vl_object_library.rows)
     /\ Len(report_df) = Len(vl_object_library.columns)

\* C15: in the per-cell table, row k is the row of generated row k, and its
\* cell in a column other than the key is the missing marker, neither 0 nor
\* an error value, when the reference has no row with the key of row k or
\* lacks the column, and error_calc(generated value, reference value of the
\* row with that key) otherwise.
C15_CellIsMissingOrError ==
  Verified
  => /\ Len(result_df.rows) = Len(vl_object_library.rows)
     /\ result_df.columns = vl_object_library.columns
     /\ \A k \in 1..Len(result_df.rows) :
          /\ result_df.rows[k].vals[1] = vl_object_library.rows[k].vals[1]
          /\ \A c \in 2..Len(result_df.columns) :
               LET r == RefRowOf(k)
                   rc == RefColumnOf(result_df.columns[c])
                   cell == result_df.rows[k].vals[c]
               IN  IF r = 0 \/ rc = 0
                   THEN cell.t = "nan" /\ cell # Num(0)
                   ELSE cell = error_calc(vl_object_library.rows[k].vals[c],
                                          verification_library.rows[r].vals[rc]).value

\* The first generated key is missing from the reference, the second is
\* compared with the reference row that has its key, which is not the
\* reference row at its position.
C15_Witness ==
  /\ Verified
  /\ vl_state = "live"
  /\ Len(result_df.rows) >= 3
  /\ RefRowOf(1) = 0
  /\ RefRowOf(2) = 2
  /\ RefRowOf(3) = 1
  /\ result_df.rows[1].vals[2].t = "nan"
  /\ result_df.rows[2].vals[2].t = "num"
  /\ result_df.rows[2].vals[2].n # 0
  /\ result_df.rows[3].vals[2].t = "num"

\* The generated rows whose key the reference has.
FoundRows == {k \in 1..Len(vl_object_library.rows) : RefRowOf(k) # 0}

\* c is coverage / 100 rounded to 2 decimals of count out of total.
IsCoverage(c, count, total) ==
  /\ c.t = "num"
  /\ c.d = 100
  /\ Abs(2 * c.n * total - 20000 * count) <= total

\* C19: for every column of the generated table that the reference has, the
\* reported coverage is 100 * (rows with a non-missing cell in the per-cell
\* table) / (generated rows), rounded to 2 decimals; for a compared column
\* the rows with a non-missing cell are the rows whose key the reference has.
C19_Coverage ==
  (Verified /\ vl_state = "live")
  => \A j \in 1..Len(report_df) :
       report_df[j].checked = "yes"
       => /\ IsCoverage(report_df[j].coverage,
                        Cardinality({k \in 1..Len(result_df.rows) :
                                       result_df.rows[k].vals[j].t # "nan"}),
                        Len(vl_object_library.rows))
          /\ report_df[j].param # lookup_index
               => IsCoverage(report_df[j].coverage, Cardinality(FoundRows),
                             Len(vl_object_library.rows))

\* Three generated rows of which two keys are in the reference: 66.67.
C19_Witness ==
  /\ Verified
  /\ vl_state = "live"
  /\ Len(vl_object_library.rows) = 3
  /\ Cardinality(FoundRows) = 2
  /\ report_df[2].checked = "yes"
  /\ report_df[2].coverage = Frac(6667, 100)

\* The errors of the numeric column at position c of the generated rows whose
\* key the reference has, in row order, for a reference that has the column.
RECURSIVE ErrorsOf(_, _)
ErrorsOf(c, n) ==
  IF n = 0 THEN <<>>
  ELSE IF RefRowOf(n) = 0 THEN ErrorsOf(c, n - 1)
       ELSE Append(ErrorsOf(c, n - 1),
                   error_calc(vl_object_library.rows[n].vals[c],
                              verification_library.rows[RefRowOf(n)].vals[
                                RefColumnOf(vl_object_library.columns[c])]).value)

\* C20: for a numeric column that the reference has, max, min, avg and
\* avg-abs of the report are the maximum, the minimum, the mean and the mean
\* of the absolute values of the errors of the rows whose key the reference
\* has, the other rows not counted; if there is no such row all four are
\* not-applicable.
C20_NumericAggregates ==
  (Verified /\ vl_state = "live")
  => \A j \in 1..Len(report_df) :
       (report_df[j].checked = "yes" /\ report_df[j].param = "capacity")
       => LET errs == ErrorsOf(j, Len(vl_object_library.rows))
              row == report_df[j]
          IN  IF errs = <<>>
              THEN /\ row.max_error = NotApplicable
                   /\ row.min_error = NotApplicable
                   /\ row.avg_error = NotApplicable
                   /\ row.avg_abs_error = NotApplicable
              ELSE /\ \E k \in 1..Len(errs) : errs[k] = row.max_error
                   /\ \A k \in 1..Len(errs) : Scaled(errs[k]) <= Scaled(row.max_error)
                   /\ \E k \in 1..Len(errs) : errs[k] = row.min_error
                   /\ \A k \in 1..Len(errs) : Scaled(errs[k]) >= Scaled(row.min_error)
                   /\ row.avg_error = Frac(SumScaled(errs), DecimalScale * Len(errs))
                   /\ row.avg_abs_error =
                        Frac(SumAbsScaled(errs), DecimalScale * Len(errs))

\* A numeric column with a missing cell and two errors of opposite sign.
C20_Witness ==
  /\ Verified
  /\ vl_state = "live"
  /\ report_df[2].param = "capacity"
  /\ report_df[2].checked = "yes"
  /\ Cardinality(FoundRows) = 2
  /\ Len(vl_object_library.rows) = 3
  /\ Scaled(report_df[2].min_error) < 0
  /\ Scaled(report_df[2].max_error) > 0
  /\ report_df[2].avg_error.d = 2 * DecimalScale

\* The cells of the column at position c of the generated rows whose key the
\* reference has, compared with the reference: how many are equal (eq = TRUE)
\* or differ (eq = FALSE).
Compared(c, eq) ==
  Cardinality({k \in FoundRows :
     (vl_object_library.rows[k].vals[c] =
        verification_library.rows[RefRowOf(k)].vals[
          RefColumnOf(vl_object_library.columns[c])]) = eq})

\* The column at position c of the generated table holds strs.
Textual(c) ==
  \A k \in 1..Len(vl_object_library.rows) : vl_object_library.rows[k].vals[c].t = "str"

\* C21: in a report, for a textual column that the reference has, max, min,
\* avg and avg-abs are not-applicable and, when at least one cell of the
\* column was compared, the string error is
\* (1 - matched / (matched + not_matched)) * 100, matched and not_matched
\* being the numbers of compared cells that are equal to and differ from the
\* reference.
C21_StringError ==
  (Verified /\ vl_state = "live")
  => \A j \in 2..Len(report_df) :
       (report_df[j].checked = "yes" /\ Textual(j))
       => LET row == report_df[j]
              matched == Compared(j, TRUE)
              not_matched == Compared(j, FALSE)
          IN  /\ row.max_error = NotApplicable
              /\ row.min_error = NotApplicable
              /\ row.avg_error = NotApplicable
              /\ row.avg_abs_error = NotApplicable
              /\ matched + not_matched > 0
                   => /\ row.str_error.t = "num"
                      /\ row.str_error.n * (matched + not_matched)
                           = (100 * (matched + not_matched) - 100 * matched)
                             * row.str_error.d

\* A textual column with a matching cell, a cell that does not match and a
\* missing cell: the string error is 50.
C21_Witness ==
  /\ Verified
  /\ vl_state = "live"
  /\ Len(vl_object_library.rows) = 3
  /\ report_df[3].param = "grade"
  /\ report_df[3].checked = "yes"
  /\ Compared(3, TRUE) = 1
  /\ Compared(3, FALSE) = 1
  /\ RefRowOf(3) = 0
  /\ report_df[3].str_error = Frac(100, 2)

\* C22: the report has one row per column of the generated table, in the
\* order of the columns; checked is "yes" if and only if the reference table
\* has the column, and in a row with checked "no" the coverage, max, min,
\* avg, avg-abs and string-error fields are all the missing marker.
C22_OneRowPerColumn ==
  (Verified /\ vl_state = "live")
  => /\ Len(report_df) = Len(vl_object_library.columns)
     /\ \A j \in 1..Len(report_df) :
          LET row == report_df[j]
          IN  /\ row.param = vl_object_library.columns[j]
              /\ row.checked \in {"yes", "no"}
              /\ row.checked = "yes" <=> RefColumnOf(vl_object_library.columns[j]) # 0
              /\ row.checked = "no"
                   => /\ row.coverage = np_nan
                      /\ row.max_error = np_nan
                      /\ row.min_error = np_nan
                      /\ row.avg_error = np_nan
                      /\ row.avg_abs_error = np_nan
                      /\ row.str_error = np_nan

\* A report with a column the reference has and a column it lacks.
C22_Witness ==
  /\ Verified
  /\ vl_state = "live"
  /\ Len(vl_object_library.rows) >= 2
  /\ RefColumnOf("capacity") = 0
  /\ RefColumnOf("grade") # 0
  /\ report_df[2].checked = "no"
  /\ report_df[2].coverage = np_nan
  /\ report_df[3].checked = "yes"

\* The first non-missing cell of a list of cells, the missing marker if
\* there is none.
RECURSIVE FirstPresent(_)
FirstPresent(col) ==
  IF col = <<>> THEN np_nan
  ELSE IF Head(col).t # "nan" THEN Head(col) ELSE FirstPresent(Tail(col))

\* C28: for a generated table with at least one row, every column that the
\* reference has and that has a non-missing per-cell result is reported, as
\* textual (not-applicable max, a string error) if the first non-missing
\* per-cell result is a str and as numeric (a max, a not-applicable string
\* error) otherwise, also when the column starts with missing cells.
C28_ClassifiedByFirstPresent ==
  (Verified /\ Len(vl_object_library.rows) >= 1
     /\ Len(result_df.rows) = Len(vl_object_library.rows))
  => \A j \in 2..Len(vl_object_library.columns) :
       LET first == FirstPresent(ColumnList(result_df, vl_object_library.columns[j]))
       IN  (RefColumnOf(vl_object_library.columns[j]) # 0 /\ first.t # "nan")
           => /\ vl_state = "live"
              /\ first.t = "str"
                   <=> /\ report_df[j].max_error = NotApplicable
                       /\ report_df[j].str_error # NotApplicable

\* --------------------------------------------- claims: database/population.py
\* The collections that the step drops.
Dropped == collections \ collections'

C24_LiteralDropStep ==
  /\ \A c \in CollNames :
       (c \in Dropped \/ Len(documents'[c]) < Len(documents[c]))
       => \/ /\ call.fn = "drop_new_collections"
             /\ c = Head(call.new_colls)
             /\ \E k \in 1..Len(population_list) : population_list[k][1] = c
             /\ c \in collections
             /\ user_input' = "yes"
             /\ Dropped = {c}
          \/ /\ call.fn = "drop_all_collections_USE_WITH_CAUTION"
             /\ call.stage = 2
             /\ user_input = "yes"
             /\ user_input' = "yes"
  /\ (call.fn = "drop_new_collections" /\ call' # call /\ user_input' = "no")
       => /\ collections' = collections
          /\ documents' = documents
  /\ (call.fn = "drop_new_collections" /\ user_input' \notin {"yes", "no"})
       => UNCHANGED <<call, collections, documents>>

\* C24 as stated: a step drops a collection only as the answer "yes" to the
\* prompt of drop_new_collections for that collection, which is named in the
\* population list and exists, or as the second of two consecutive answers
\* "yes" to drop_all_collections_USE_WITH_CAUTION; in drop_new_collections
\* "no" leaves the collection as it is and any other line asks again.
C24_DropsOnlyOnYes == [][C24_LiteralDropStep]_vars

C24_DropStep ==
  /\ \A c \in CollNames :
       (c \in Dropped \/ Len(documents'[c]) < Len(documents[c]))
       => \/ /\ call.fn = "drop_new_collections"
             /\ c = Head(call.new_colls)
             /\ \E k \in 1..Len(population_list) : population_list[k][1] = c
             /\ c \in collections
             /\ Lower(user_input') = "yes"
             /\ Dropped = {c}
          \/ /\ call.fn = "drop_all_collections_USE_WITH_CAUTION"
             /\ call.stage = 2
             /\ Lower(user_input) = "yes"
             /\ Lower(user_input') = "yes"
  /\ (call.fn = "drop_new_collections" /\ call' # call /\ Lower(user_input') = "no")
       => /\ collections' = collections
          /\ documents' = documents
  /\ (call.fn = "drop_new_collections" /\ Lower(user_input') \notin {"yes", "no"})
       => UNCHANGED <<call, collections, documents>>

\* C24, amended: a step drops a collection or removes records only as an
\* answer that is "yes" after lower-casing ("YES" too) to the prompt of
\* drop_new_collections for that collection, which is named in the
\* population list and exists, or as the second of two consecutive such
\* answers to drop_all_collections_USE_WITH_CAUTION; in
\* drop_new_collections an answer that is "no" after lower-casing leaves the
\* collection as it is and any other line asks again.
C24_DropsOnlyOnConfirmation == [][C24_DropStep]_vars

\* drop_new_collections dropped one collection on "yes" and is asking about
\* a second one; a collection that the population list does not name exists.
C24_Witness ==
  /\ call.fn = "drop_new_collections"
  /\ Lower(user_input) = "yes"
  /\ call.col_list \ collections # {}
  /\ Head(call.new_colls) \in collections
  /\ "plates" \in collections

\* The file names of the pairs of the collection c that populate_db loads,
\* in the order of the population list: on "yes" every pair, on "no" the
\* pairs of a collection that did not exist at the start of the call, and
\* of these the pairs whose file can be read.
RECURSIVE Loaded(_, _, _)
Loaded(pl, c, answer) ==
  IF pl = <<>> THEN <<>>
  ELSE IF /\ Head(pl)[1] = c
          /\ files[Head(pl)[2]] = "ok"
          /\ answer = "yes" \/ (answer = "no" /\ c \notin collections)
       THEN <<Head(pl)[2]>> \o Loaded(Tail(pl), c, answer)
       ELSE Loaded(Tail(pl), c, answer)

C30_PopulateStep ==
  (call.fn = "populate_db" /\ call'.fn = "none")
  => /\ \A c \in CollNames :
          /\ documents'[c] = documents[c] \o Loaded(population_list, c, user_input')
          /\ c \in collections'
               <=> (c \in collections \/ Loaded(population_list, c, user_input') # <<>>)
     /\ user_input' \notin {"yes", "no"}
          => collections' = collections /\ documents' = documents

\* C30: after the answer, populate_db has inserted, in the order of the
\* population list, on "yes" the file of every pair, on "no" the files of
\* the pairs whose collection did not exist when the call started, on any
\* other answer nothing; a pair whose file is missing or unreadable is
\* passed over and the pairs after it are processed.
C30_PopulateByAnswer == [][C30_PopulateStep]_vars

\* On "no", both files of a collection created by the call were inserted
\* and a collection that existed was left as it was.
C30_Witness ==
  /\ op.name = "populate_db"
  /\ call.fn = "none"
  /\ user_input = "no"
  /\ Len(population_list) = 2
  /\ population_list[1][1] = "beams"
  /\ population_list[2][1] = "beams"
  /\ documents["beams"] = <<population_list[1][2], population_list[2][2]>>
  /\ documents["bolts"] = <<"old">>

====
